---- MODULE Spec2Model ----
(***************************************************************************)
(* Queens-Game: the two-player, region-constrained N-Queens game engine.   *)
(* The game service is stateless: every request carries the GameState and  *)
(* every response returns it.  The variables below are the fields of the   *)
(* GameState the client holds between two requests, and the QueensSolution *)
(* the client last received from a solver.                                 *)
(***************************************************************************)
EXTENDS Integers, Sequences, FiniteSets, TLC

VARIABLES n, regions, queenPositions, currentPlayer, gameOver, winner,
          message, validMoves, player1Queens, player2Queens, solution,
          attackPatternCache, gameStateCache, gameMode, difficulty, timers

vars == <<n, regions, queenPositions, currentPlayer, gameOver, winner,
          message, validMoves, player1Queens, player2Queens, solution,
          attackPatternCache, gameStateCache, gameMode, difficulty, timers>>

(* The state of the board component of the frontend besides its GameState: *)
(* the two selects and the setTimeout callbacks that have not yet run.     *)
(* The backend reads and writes none of them.                              *)
BoardFields == <<gameMode, difficulty, timers>>

(* The initial values of useState, and no callback pending. *)
BoardDefaults ==
    /\ gameMode = "human-vs-human"
    /\ difficulty = "easy"
    /\ timers = <<>>

(* Largest board size requested from initializeGame. *)
MaxN == 4

(* The value of an unset String field. *)
Null == "null"

(***************************************************************************)
(* Java integer arithmetic: / truncates toward zero, % takes the sign of   *)
(* the dividend.                                                           *)
(***************************************************************************)
Abs(x) == IF x < 0 THEN -x ELSE x

JavaDiv(a, b) == IF a >= 0 THEN a \div b ELSE -((-a) \div b)

JavaMod(a, b) == a - b * JavaDiv(a, b)

Range(s) == {s[i] : i \in 1..Len(s)}

(* List.get(i) is defined for 0 <= i < size and throws otherwise. *)
InBounds(list, i) == i >= 0 /\ i < Len(list)

Get(list, i) == list[i + 1]

(***************************************************************************)
(* The GameState as a record, for the operators that take one.             *)
(***************************************************************************)
State(nn, rr, qq, cp) == [n |-> nn, regions |-> rr, queenPositions |-> qq, currentPlayer |-> cp]

Current == State(n, regions, queenPositions, currentPlayer)

(***************************************************************************)
(* QueensGameService: the legality oracle.                                 *)
(***************************************************************************)
(* isSafePosition without its diagonal test. *)
isSafePosition_NoDiagonal(position, queens, nn) ==
    LET row == JavaDiv(position, nn)
        col == JavaMod(position, nn)
    IN \A k \in 1..Len(queens) :
          /\ row # JavaDiv(queens[k], nn)
          /\ col # JavaMod(queens[k], nn)

isSafePosition(position, queens, nn) ==
    LET row == JavaDiv(position, nn)
        col == JavaMod(position, nn)
    IN \A k \in 1..Len(queens) :
          LET qRow == JavaDiv(queens[k], nn)
              qCol == JavaMod(queens[k], nn)
          IN /\ row # qRow
             /\ col # qCol
             /\ Abs(row - qRow) # Abs(col - qCol)

(* The loop of isRegionOccupied reads regions.get(queenPos) for each queen *)
(* in turn until one is in the region of the position.                     *)
RegionLoopThrows(gs, region) ==
    \E k \in 1..Len(gs.queenPositions) :
        /\ ~InBounds(gs.regions, gs.queenPositions[k])
        /\ \A j \in 1..(k - 1) :
               /\ InBounds(gs.regions, gs.queenPositions[j])
               /\ Get(gs.regions, gs.queenPositions[j]) # region

(* Every regions.get on a cell of the board or on a queen is in bounds. *)
RegionsCover(nn, rr, queens) ==
    /\ Len(rr) >= nn * nn
    /\ \A k \in 1..Len(queens) : InBounds(rr, queens[k])

isRegionOccupiedThrows(position, gs) ==
    /\ Len(gs.regions) > 0
    /\ \/ ~InBounds(gs.regions, position)
       \/ RegionLoopThrows(gs, Get(gs.regions, position))

(* isRegionOccupied that compares the region with the cell index of each   *)
(* queen instead of with the queen's region.                               *)
isRegionOccupied_ByIndex(position, gs) ==
    IF Len(gs.regions) = 0
    THEN FALSE
    ELSE \E k \in 1..Len(gs.queenPositions) :
            gs.queenPositions[k] = Get(gs.regions, position)

isRegionOccupied(position, gs) ==
    IF Len(gs.regions) = 0
    THEN FALSE
    ELSE \E k \in 1..Len(gs.queenPositions) :
            Get(gs.regions, gs.queenPositions[k]) = Get(gs.regions, position)

isSafeThrows(gs, position) ==
    /\ isSafePosition(position, gs.queenPositions, gs.n)
    /\ isRegionOccupiedThrows(position, gs)

isSafe(gs, position) ==
    /\ isSafePosition(position, gs.queenPositions, gs.n)
    /\ ~isRegionOccupied(position, gs)

Cells(nn) == [i \in 1..(nn * nn) |-> i - 1]

getAllValidPositionsThrows(gs) ==
    /\ ~RegionsCover(gs.n, gs.regions, gs.queenPositions)
    /\ \E i \in 0..(gs.n * gs.n - 1) : isSafeThrows(gs, i)

getAllValidPositions(gs) ==
    SelectSeq(Cells(gs.n), LAMBDA i : isSafe(gs, i))

(***************************************************************************)
(* DnCBacktrackingSolverService: the partial-state move query.             *)
(***************************************************************************)
Contains(list, x) == \E k \in 1..Len(list) : list[k] = x

(* One pass of the loop body of isPositionSafeForMove for queen k. *)
QueenConflicts(position, queens, nn, rr, k) ==
    LET row == JavaDiv(position, nn)
        col == JavaMod(position, nn)
        qRow == JavaDiv(queens[k], nn)
        qCol == JavaMod(queens[k], nn)
    IN \/ Get(rr, queens[k]) = Get(rr, position)
       \/ row = qRow
       \/ col = qCol
       \/ (row - col) = (qRow - qCol)
       \/ (row + col) = (qRow + qCol)

isPositionSafeForMoveThrows(position, queens, nn, rr) ==
    \/ ~InBounds(rr, position)
    \/ \E k \in 1..Len(queens) :
          /\ ~InBounds(rr, queens[k])
          /\ \A j \in 1..(k - 1) :
                 /\ InBounds(rr, queens[j])
                 /\ ~QueenConflicts(position, queens, nn, rr, j)

isPositionSafeForMove(position, queens, nn, rr) ==
    \A k \in 1..Len(queens) : ~QueenConflicts(position, queens, nn, rr, k)

DnCCandidates(queens, nn) ==
    SelectSeq(Cells(nn), LAMBDA p : ~Contains(queens, p))

DnCValidMoves(queens, nn, rr) ==
    SelectSeq(DnCCandidates(queens, nn),
              LAMBDA p : isPositionSafeForMove(p, queens, nn, rr))

DnCScanThrows(queens, nn, rr) ==
    /\ ~RegionsCover(nn, rr, queens)
    /\ \E p \in Range(DnCCandidates(queens, nn)) :
          isPositionSafeForMoveThrows(p, queens, nn, rr)

opponentHasMove(queens, nn, rr) ==
    Len(DnCValidMoves(queens, nn, rr)) > 0

getDnCMoveThrows(gs) ==
    /\ ~RegionsCover(gs.n, gs.regions, gs.queenPositions)
    /\ \/ DnCScanThrows(gs.queenPositions, gs.n, gs.regions)
       \/ \E m \in Range(DnCValidMoves(gs.queenPositions, gs.n, gs.regions)) :
             DnCScanThrows(Append(gs.queenPositions, m), gs.n, gs.regions)

(* getDnCMove that plays the first valid move without looking for a        *)
(* winning one.                                                            *)
getDnCMove_FirstValid(gs, over) ==
    LET moves == DnCValidMoves(gs.queenPositions, gs.n, gs.regions)
    IN IF over THEN -1
       ELSE IF Len(moves) = 0 THEN -1
       ELSE moves[1]

getDnCMove(gs, over) ==
    LET moves == DnCValidMoves(gs.queenPositions, gs.n, gs.regions)
        winning == SelectSeq(moves, LAMBDA m :
                       ~opponentHasMove(Append(gs.queenPositions, m), gs.n, gs.regions))
    IN IF over THEN -1
       ELSE IF Len(moves) = 0 THEN -1
       ELSE IF Len(winning) > 0 THEN winning[1]
       ELSE moves[1]

(***************************************************************************)
(* The greedy strategy: one-ply lookahead, as greedyMove of the game       *)
(* service defines it.                                                     *)
(***************************************************************************)
Other(player) == IF player = 1 THEN 2 ELSE 1

simulateMove(original, position) ==
    State(original.n, original.regions,
          Append(original.queenPositions, position),
          Other(original.currentPlayer))

countSelfMoves(state) ==
    LET temp == State(state.n, state.regions, state.queenPositions,
                      Other(state.currentPlayer))
    IN Len(getAllValidPositions(temp))

MAX_VALUE == 2147483647

MIN_VALUE == -MAX_VALUE - 1

(* The loop of greedyMove from move number i on, with its three locals;  *)
(* GreedyBody is one pass, numOpponentMoves the count it starts with.    *)
RECURSIVE GreedyLoop(_, _, _, _, _, _)
RECURSIVE GreedyBody(_, _, _, _, _, _, _)
(* One pass of the loop that prefers the move leaving the opponent more. *)
GreedyBody_MostOpponentMoves(gs, moves, i, bestPosition, minOpponentMoves, maxOwnMoves, numOpponentMoves) ==
    LET position == moves[i]
        afterAiMove == simulateMove(gs, position)
    IN IF numOpponentMoves = 0
       THEN position
       ELSE IF bestPosition = -1 \/ numOpponentMoves > minOpponentMoves
       THEN GreedyLoop(gs, moves, i + 1, position, numOpponentMoves,
                       countSelfMoves(afterAiMove))
       ELSE GreedyLoop(gs, moves, i + 1, bestPosition, minOpponentMoves,
                       maxOwnMoves)

GreedyBody(gs, moves, i, bestPosition, minOpponentMoves, maxOwnMoves, numOpponentMoves) ==
    LET position == moves[i]
        afterAiMove == simulateMove(gs, position)
    IN IF numOpponentMoves = 0
       THEN position
       ELSE IF numOpponentMoves < minOpponentMoves
       THEN GreedyLoop(gs, moves, i + 1, position, numOpponentMoves,
                       countSelfMoves(afterAiMove))
       ELSE IF /\ numOpponentMoves = minOpponentMoves
               /\ countSelfMoves(afterAiMove) > maxOwnMoves
       THEN GreedyLoop(gs, moves, i + 1, position, minOpponentMoves,
                       countSelfMoves(afterAiMove))
       ELSE GreedyLoop(gs, moves, i + 1, bestPosition, minOpponentMoves,
                       maxOwnMoves)

GreedyLoop(gs, moves, i, bestPosition, minOpponentMoves, maxOwnMoves) ==
    IF i > Len(moves)
    THEN bestPosition
    ELSE GreedyBody(gs, moves, i, bestPosition, minOpponentMoves, maxOwnMoves,
                    Len(getAllValidPositions(simulateMove(gs, moves[i]))))

(* greedyMove that looks at every cell of the board, not at the valid ones. *)
greedyMove_AnyCell(gs) ==
    LET moves == getAllValidPositions(gs)
    IN IF Len(moves) = 0
       THEN -1
       ELSE GreedyLoop(gs, Cells(gs.n), 1, -1, MAX_VALUE, -1)

greedyMove(gs) ==
    LET moves == getAllValidPositions(gs)
    IN IF Len(moves) = 0
       THEN -1
       ELSE GreedyLoop(gs, moves, 1, -1, MAX_VALUE, -1)

(* Every scan of greedyMove reads the regions of the same cells and of the *)
(* queens; the simulated queen is a valid cell.                            *)
greedyMoveThrows(gs) ==
    /\ ~RegionsCover(gs.n, gs.regions, gs.queenPositions)
    /\ \/ getAllValidPositionsThrows(gs)
       \/ \E m \in Range(getAllValidPositions(gs)) :
             getAllValidPositionsThrows(simulateMove(gs, m))

(***************************************************************************)
(* MinimaxDpSolverService: depth-bounded minimax with alpha-beta pruning   *)
(* and a memo table local to one getMinimaxMove call.                      *)
(***************************************************************************)
WIN_SCORE == 10000

LOSE_SCORE == -10000

MAX_DEPTH == 6

(* Collections.sort on a list of integers. *)
RECURSIVE Insert(_, _)
Insert(sorted, x) ==
    IF sorted = <<>> THEN <<x>>
    ELSE IF x <= Head(sorted) THEN <<x>> \o sorted
    ELSE <<Head(sorted)>> \o Insert(Tail(sorted), x)

RECURSIVE Sort(_)
Sort(list) ==
    IF list = <<>> THEN <<>> ELSE Insert(Sort(Tail(list)), Head(list))

generateKey(gs, depth, isMaximizing) ==
    <<Sort(gs.queenPositions), gs.currentPlayer, depth, isMaximizing>>

MinimaxMakeMove(gs, position) ==
    State(gs.n, gs.regions, Append(gs.queenPositions, position),
          Other(gs.currentPlayer))

(* isSafe of the minimax service without its region test. *)
MinimaxIsSafe_NoRegion(queens, position, nn, rr) ==
    LET row == JavaDiv(position, nn)
        col == JavaMod(position, nn)
    IN \A k \in 1..Len(queens) :
          LET qRow == JavaDiv(queens[k], nn)
              qCol == JavaMod(queens[k], nn)
          IN ~(\/ row = qRow
               \/ col = qCol
               \/ (row - col) = (qRow - qCol)
               \/ (row + col) = (qRow + qCol))

(* isSafe of the minimax service without its test of the r + c diagonal. *)
MinimaxIsSafe_NoAntiDiagonal(queens, position, nn, rr) ==
    LET row == JavaDiv(position, nn)
        col == JavaMod(position, nn)
        region == Get(rr, position)
    IN /\ \A k \in 1..Len(queens) : Get(rr, queens[k]) # region
       /\ \A k \in 1..Len(queens) :
             LET qRow == JavaDiv(queens[k], nn)
                 qCol == JavaMod(queens[k], nn)
             IN ~(\/ row = qRow
                  \/ col = qCol
                  \/ (row - col) = (qRow - qCol))

MinimaxIsSafe(queens, position, nn, rr) ==
    LET row == JavaDiv(position, nn)
        col == JavaMod(position, nn)
        region == Get(rr, position)
    IN /\ \A k \in 1..Len(queens) : Get(rr, queens[k]) # region
       /\ \A k \in 1..Len(queens) :
             LET qRow == JavaDiv(queens[k], nn)
                 qCol == JavaMod(queens[k], nn)
             IN ~(\/ row = qRow
                  \/ col = qCol
                  \/ (row - col) = (qRow - qCol)
                  \/ (row + col) = (qRow + qCol))

MinimaxIsSafeThrows(queens, position, nn, rr) ==
    \/ ~InBounds(rr, position)
    \/ \E k \in 1..Len(queens) :
          /\ ~InBounds(rr, queens[k])
          /\ \A j \in 1..(k - 1) :
                 /\ InBounds(rr, queens[j])
                 /\ Get(rr, queens[j]) # Get(rr, position)

MinimaxGetAllValidPositions(gs) ==
    SelectSeq(Cells(gs.n),
              LAMBDA p : MinimaxIsSafe(gs.queenPositions, p, gs.n, gs.regions))

RECURSIVE SumSeq(_)
SumSeq(list) == IF list = <<>> THEN 0 ELSE Head(list) + SumSeq(Tail(list))

evaluateGameState(gs, isMaximizingPlayer) ==
    LET availablePositions == Len(MinimaxGetAllValidPositions(gs))
        center == JavaDiv(gs.n, 2)
        centerControl ==
            SumSeq([k \in 1..Len(gs.queenPositions) |->
                      gs.n - (Abs(JavaDiv(gs.queenPositions[k], gs.n) - center)
                              + Abs(JavaMod(gs.queenPositions[k], gs.n) - center))])
        score == availablePositions * 10 + centerControl
    IN IF isMaximizingPlayer THEN score ELSE -score

MinimaxResult(score, bestMove, memo) ==
    [score |-> score, bestMove |-> bestMove, memo |-> memo]

Put(memo, key, score, bestMove) ==
    (key :> [score |-> score, bestMove |-> bestMove]) @@ memo

Max2(a, b) == IF a >= b THEN a ELSE b

Min2(a, b) == IF a <= b THEN a ELSE b

RECURSIVE minimax(_, _, _, _, _, _)
RECURSIVE MinimaxLoop(_, _, _, _, _, _, _, _, _, _)

(* The for loop of minimax from move number i on; the record returned      *)
(* holds bestScore, bestMove and the memo table when the loop is left.     *)
MinimaxLoop(gs, depth, isMaximizing, moves, i, bestMove, bestScore, alpha, beta, memo) ==
    IF i > Len(moves)
    THEN MinimaxResult(bestScore, bestMove, memo)
    ELSE LET result == minimax(MinimaxMakeMove(gs, moves[i]), depth + 1,
                               ~isMaximizing, alpha, beta, memo)
             score == result.score
             better == IF isMaximizing THEN score > bestScore ELSE score < bestScore
             newScore == IF better THEN score ELSE bestScore
             newMove == IF better THEN moves[i] ELSE bestMove
             newAlpha == IF isMaximizing /\ better THEN Max2(alpha, score) ELSE alpha
             newBeta == IF ~isMaximizing /\ better THEN Min2(beta, score) ELSE beta
         IN IF newBeta <= newAlpha
            THEN MinimaxResult(newScore, newMove, result.memo)
            ELSE MinimaxLoop(gs, depth, isMaximizing, moves, i + 1, newMove,
                             newScore, newAlpha, newBeta, result.memo)

(* minimax that scores a state without a valid move by the heuristic. *)
minimax_NoTerminalScore(gs, depth, isMaximizing, alpha, beta, memo) ==
    LET key == generateKey(gs, depth, isMaximizing)
    IN IF key \in DOMAIN memo
       THEN MinimaxResult(memo[key].score, memo[key].bestMove, memo)
       ELSE LET moves == MinimaxGetAllValidPositions(gs)
            IN IF Len(moves) = 0 \/ depth >= MAX_DEPTH
               THEN LET score == evaluateGameState(gs, isMaximizing)
                    IN MinimaxResult(score, -1, Put(memo, key, score, -1))
               ELSE LET loop == MinimaxLoop(gs, depth, isMaximizing, moves, 1, -1,
                                    IF isMaximizing THEN MIN_VALUE ELSE MAX_VALUE,
                                    alpha, beta, memo)
                    IN MinimaxResult(loop.score, loop.bestMove,
                                     Put(loop.memo, key, loop.score, loop.bestMove))

minimax(gs, depth, isMaximizing, alpha, beta, memo) ==
    LET key == generateKey(gs, depth, isMaximizing)
    IN IF key \in DOMAIN memo
       THEN MinimaxResult(memo[key].score, memo[key].bestMove, memo)
       ELSE LET moves == MinimaxGetAllValidPositions(gs)
            IN IF Len(moves) = 0
               THEN LET score == IF isMaximizing THEN LOSE_SCORE + depth
                                                 ELSE WIN_SCORE - depth
                    IN MinimaxResult(score, -1, Put(memo, key, score, -1))
               ELSE IF depth >= MAX_DEPTH
               THEN LET score == evaluateGameState(gs, isMaximizing)
                    IN MinimaxResult(score, -1, Put(memo, key, score, -1))
               ELSE LET loop == MinimaxLoop(gs, depth, isMaximizing, moves, 1, -1,
                                    IF isMaximizing THEN MIN_VALUE ELSE MAX_VALUE,
                                    alpha, beta, memo)
                    IN MinimaxResult(loop.score, loop.bestMove,
                                     Put(loop.memo, key, loop.score, loop.bestMove))

EmptyMemo == [key \in {} |-> 0]

(* getMinimaxMove with a code of its own for a finished game.              *)
getMinimaxMove_FinishedGameCode(gs, over) ==
    IF over
    THEN -2
    ELSE minimax(gs, 0, TRUE, MIN_VALUE, MAX_VALUE, EmptyMemo).bestMove

getMinimaxMove(gs, over) ==
    IF over
    THEN -1
    ELSE minimax(gs, 0, TRUE, MIN_VALUE, MAX_VALUE, EmptyMemo).bestMove

(* The first scan of the root reads regions.get for every cell and for the *)
(* queens; deeper scans read the same cells plus valid, in-bounds queens.  *)
getMinimaxMoveThrows(gs) ==
    /\ ~RegionsCover(gs.n, gs.regions, gs.queenPositions)
    /\ \E p \in 0..(gs.n * gs.n - 1) :
          MinimaxIsSafeThrows(gs.queenPositions, p, gs.n, gs.regions)

(***************************************************************************)
(* The standalone solvers return a QueensSolution.  A diagnostic is kept   *)
(* as the pieces the code concatenates.                                    *)
(***************************************************************************)
QueensSolution(positions, solved, msg) ==
    [queenPositions |-> positions, solved |-> solved, message |-> msg]

(* regions == null: a value that is no list. *)
NullList == [i \in {0} |-> 0]

(* The QueensSolution of the no-argument constructor: no response yet. *)
NoSolution == QueensSolution(NullList, FALSE, <<Null>>)

(* The long bitmasks.  Every index the solvers shift by is between 0 and   *)
(* 2n, far below the 64 bits of a long for the boards considered here.     *)
Shl(k) == 2 ^ k

(* (mask & (1L << k)) != 0 *)
BitSet(mask, k) == (mask \div Shl(k)) % 2 = 1

(* An or that sets no bit. *)
WithBit_SetsNothing(mask, k) == mask

(* mask | (1L << k) *)
WithBit(mask, k) == IF BitSet(mask, k) THEN mask ELSE mask + Shl(k)

(* The numbers 0 .. nn - 1 in ascending order: the order of a for loop     *)
(* over the rows or columns.                                               *)
Indices(nn) == [i \in 1..nn |-> i - 1]

(***************************************************************************)
(* DynamicProgrammingSolverService.solveDP: row by row backtracking over   *)
(* bitmasks with a memo of dead ends.                                      *)
(***************************************************************************)
(* regionIdToBitIndex: the rank of the id among the sorted distinct ids. *)
regionIdToBitIndex(rr, id) == Cardinality({x \in Range(rr) : x < id})

(* boardRegionBits, computed once per call of solveDP: the bit index of    *)
(* the region of every cell, cell by cell.                                 *)
boardRegionBits(rr) ==
    [i \in 1..Len(rr) |-> regionIdToBitIndex(rr, rr[i])]

DPKey(row, colMask, diagMask, antiDiagMask, regionMask) ==
    <<row, colMask, diagMask, antiDiagMask, regionMask>>

DPResult(result, sol, memo) == [result |-> result, solution |-> sol, memo |-> memo]

(* solveRecursive that looks a key up without the row. *)
RECURSIVE solveRecursive_KeyWithoutRow(_, _, _, _, _, _, _, _, _)
RECURSIVE DPColumns_KeyWithoutRow(_, _, _, _, _, _, _, _, _, _)
DPColumns_KeyWithoutRow(col, row, nn, bits, colMask, diagMask, antiDiagMask, regionMask, sol, memo) ==
    IF col >= nn
    THEN DPResult(FALSE, sol,
                  (DPKey(0, colMask, 0, 0, 0) :> FALSE) @@ memo)
    ELSE LET diagIdx == row - col + nn
             antiDiagIdx == row + col
             regionBitIdx == Get(bits, row * nn + col)
         IN IF \/ BitSet(colMask, col)
               \/ BitSet(diagMask, diagIdx)
               \/ BitSet(antiDiagMask, antiDiagIdx)
               \/ BitSet(regionMask, regionBitIdx)
            THEN DPColumns_KeyWithoutRow(col + 1, row, nn, bits, colMask, diagMask,
                                         antiDiagMask, regionMask, sol, memo)
            ELSE LET sub == solveRecursive_KeyWithoutRow(
                                row + 1, nn, bits,
                                WithBit(colMask, col),
                                WithBit(diagMask, diagIdx),
                                WithBit(antiDiagMask, antiDiagIdx),
                                WithBit(regionMask, regionBitIdx),
                                Append(sol, row * nn + col), memo)
                 IN IF sub.result
                    THEN sub
                    ELSE DPColumns_KeyWithoutRow(
                             col + 1, row, nn, bits, colMask, diagMask,
                             antiDiagMask, regionMask,
                             SubSeq(sub.solution, 1, Len(sub.solution) - 1),
                             sub.memo)

solveRecursive_KeyWithoutRow(row, nn, bits, colMask, diagMask, antiDiagMask, regionMask, sol, memo) ==
    IF row = nn
    THEN DPResult(TRUE, sol, memo)
    ELSE LET key == DPKey(0, colMask, 0, 0, 0)
         IN IF key \in DOMAIN memo
            THEN DPResult(memo[key], sol, memo)
            ELSE DPColumns_KeyWithoutRow(0, row, nn, bits, colMask, diagMask,
                                         antiDiagMask, regionMask, sol, memo)

RECURSIVE solveRecursive(_, _, _, _, _, _, _, _, _)
RECURSIVE DPColumns(_, _, _, _, _, _, _, _, _, _)
(* The loop over the columns of a row, from col on. *)
DPColumns(col, row, nn, bits, colMask, diagMask, antiDiagMask, regionMask, sol, memo) ==
    IF col >= nn
    THEN DPResult(FALSE, sol,
                  (DPKey(row, colMask, diagMask, antiDiagMask, regionMask) :> FALSE)
                      @@ memo)
    ELSE LET diagIdx == row - col + nn
             antiDiagIdx == row + col
             regionBitIdx == Get(bits, row * nn + col)
         IN IF \/ BitSet(colMask, col)
               \/ BitSet(diagMask, diagIdx)
               \/ BitSet(antiDiagMask, antiDiagIdx)
               \/ BitSet(regionMask, regionBitIdx)
            THEN DPColumns(col + 1, row, nn, bits, colMask, diagMask, antiDiagMask,
                           regionMask, sol, memo)
            ELSE LET sub == solveRecursive(row + 1, nn, bits,
                                           WithBit(colMask, col),
                                           WithBit(diagMask, diagIdx),
                                           WithBit(antiDiagMask, antiDiagIdx),
                                           WithBit(regionMask, regionBitIdx),
                                           Append(sol, row * nn + col), memo)
                 IN IF sub.result
                    THEN sub
                    ELSE DPColumns(col + 1, row, nn, bits, colMask, diagMask,
                                   antiDiagMask, regionMask,
                                   SubSeq(sub.solution, 1, Len(sub.solution) - 1),
                                   sub.memo)

solveRecursive(row, nn, bits, colMask, diagMask, antiDiagMask, regionMask, sol, memo) ==
    IF row = nn
    THEN DPResult(TRUE, sol, memo)
    ELSE LET key == DPKey(row, colMask, diagMask, antiDiagMask, regionMask)
         IN IF key \in DOMAIN memo
            THEN DPResult(memo[key], sol, memo)
            ELSE DPColumns(0, row, nn, bits, colMask, diagMask, antiDiagMask,
                           regionMask, sol, memo)

InvalidSize(nn) == <<"Invalid regions array. Expected size: ", ToString(nn * nn)>>

(* solveDP without the check of the number of region ids. *)
solveDP_NoRegionCount(nn, rr) ==
    IF rr = NullList \/ Len(rr) # nn * nn
    THEN QueensSolution(<<>>, FALSE, InvalidSize(nn))
    ELSE LET found == CHOOSE r \in {solveRecursive(0, nn, bits, 0, 0, 0, 0, <<>>,
                                                    EmptyMemo) :
                                         bits \in {boardRegionBits(rr)}} : TRUE
         IN IF found.result
            THEN QueensSolution(found.solution, TRUE,
                     <<"Solved using Dynamic Programming (Memoization with Bitmasks).">>)
            ELSE QueensSolution(<<>>, FALSE,
                     <<"No solution found using Dynamic Programming.">>)

solveDP(nn, rr) ==
    IF rr = NullList \/ Len(rr) # nn * nn
    THEN QueensSolution(<<>>, FALSE, InvalidSize(nn))
    ELSE IF Cardinality(Range(rr)) # nn
    THEN QueensSolution(<<>>, FALSE,
             <<"Invalid number of regions. Expected ", ToString(nn),
               ", found ", ToString(Cardinality(Range(rr)))>>)
    ELSE LET found == CHOOSE r \in {solveRecursive(0, nn, bits, 0, 0, 0, 0, <<>>,
                                                    EmptyMemo) :
                                         bits \in {boardRegionBits(rr)}} : TRUE
         IN IF found.result
            THEN QueensSolution(found.solution, TRUE,
                     <<"Solved using Dynamic Programming (Memoization with Bitmasks).">>)
            ELSE QueensSolution(<<>>, FALSE,
                     <<"No solution found using Dynamic Programming.">>)

(***************************************************************************)
(* DnCBacktrackingSolverService.solveDnC: backtracking over the rows in    *)
(* the order of fewest valid columns.  remainingRows and regionMask are    *)
(* sets shared by all calls of the recursion and solution is a field, so   *)
(* a call returns them with its result.  The service fields n and regions  *)
(* are written before they are read in every call.  A HashSet of small     *)
(* non-negative Integers iterates in ascending order.                      *)
(***************************************************************************)
(* The column test without the test of the region. *)
DnCColumnFree_NoRegion(row, col, nn, rr, cols, diag1, diag2, regionMask) ==
    /\ ~BitSet(cols, col)
    /\ ~BitSet(diag1, row - col + nn - 1)
    /\ ~BitSet(diag2, row + col)

DnCColumnFree(row, col, nn, rr, cols, diag1, diag2, regionMask) ==
    /\ ~BitSet(cols, col)
    /\ ~BitSet(diag1, row - col + nn - 1)
    /\ ~BitSet(diag2, row + col)
    /\ Get(rr, row * nn + col) \notin regionMask

(* validCols: the columns a queen of the row may take, in ascending order. *)
DnCValidCols(row, nn, rr, cols, diag1, diag2, regionMask) ==
    SelectSeq(Indices(nn),
              LAMBDA col : DnCColumnFree(row, col, nn, rr, cols, diag1, diag2,
                                         regionMask))

(* validCount of findRowWithMinValidPlacements. *)
DnCValidCount(row, nn, rr, cols, diag1, diag2, regionMask) ==
    Cardinality({col \in 0..(nn - 1) :
                    DnCColumnFree(row, col, nn, rr, cols, diag1, diag2, regionMask)})

RECURSIVE MinRowLoop(_, _, _, _, _, _, _, _, _)
MinRowLoop(rows, minCount, bestRow, nn, rr, cols, diag1, diag2, regionMask) ==
    IF rows = <<>>
    THEN bestRow
    ELSE LET row == Head(rows)
             validCount == DnCValidCount(row, nn, rr, cols, diag1, diag2, regionMask)
         IN IF validCount = 0
            THEN -1
            ELSE IF validCount < minCount
            THEN MinRowLoop(Tail(rows), validCount, row, nn, rr, cols, diag1,
                            diag2, regionMask)
            ELSE MinRowLoop(Tail(rows), minCount, bestRow, nn, rr, cols, diag1,
                            diag2, regionMask)

(* The row selection that takes the lowest remaining row. *)
findRowWithMinValidPlacements_LowestRow(remainingRows, nn, rr, cols, diag1, diag2, regionMask) ==
    IF remainingRows = {}
    THEN -1
    ELSE CHOOSE row \in remainingRows : \A other \in remainingRows : row <= other

findRowWithMinValidPlacements(remainingRows, nn, rr, cols, diag1, diag2, regionMask) ==
    MinRowLoop(SelectSeq(Indices(nn), LAMBDA row : row \in remainingRows),
               MAX_VALUE, -1, nn, rr, cols, diag1, diag2, regionMask)

DnCResult(result, remainingRows, regionMask, sol) ==
    [result |-> result, remainingRows |-> remainingRows,
     regionMask |-> regionMask, solution |-> sol]

RECURSIVE dncQueens(_, _, _, _, _, _, _, _)
RECURSIVE DnCColumns(_, _, _, _, _, _, _, _, _, _)
(* The loop over validCols that gives up after the first column. *)
DnCColumns_FirstOnly(validCols, selectedRow, remainingRows, nn, rr, cols, diag1, diag2, regionMask, sol) ==
    IF validCols = <<>>
    THEN DnCResult(FALSE, remainingRows, regionMask, sol)
    ELSE LET col == Head(validCols)
             position == selectedRow * nn + col
             region == Get(rr, position)
             sub == dncQueens(remainingRows \ {selectedRow}, nn, rr,
                              WithBit(cols, col),
                              WithBit(diag1, selectedRow - col + nn - 1),
                              WithBit(diag2, selectedRow + col),
                              regionMask \cup {region},
                              Append(sol, position))
         IN IF sub.result
            THEN sub
            ELSE DnCResult(FALSE, sub.remainingRows \cup {selectedRow},
                           sub.regionMask \ {region},
                           SubSeq(sub.solution, 1, Len(sub.solution) - 1))

(* The loop over validCols that leaves the region of a failed column in    *)
(* regionMask.                                                             *)
DnCColumns_KeepsRegion(validCols, selectedRow, remainingRows, nn, rr, cols, diag1, diag2, regionMask, sol) ==
    IF validCols = <<>>
    THEN DnCResult(FALSE, remainingRows, regionMask, sol)
    ELSE LET col == Head(validCols)
             position == selectedRow * nn + col
             region == Get(rr, position)
             sub == dncQueens(remainingRows \ {selectedRow}, nn, rr,
                              WithBit(cols, col),
                              WithBit(diag1, selectedRow - col + nn - 1),
                              WithBit(diag2, selectedRow + col),
                              regionMask \cup {region},
                              Append(sol, position))
         IN IF sub.result
            THEN sub
            ELSE DnCColumns(Tail(validCols), selectedRow,
                            sub.remainingRows \cup {selectedRow}, nn, rr,
                            cols, diag1, diag2,
                            sub.regionMask,
                            SubSeq(sub.solution, 1, Len(sub.solution) - 1))

(* The loop over validCols of the selected row. *)
DnCColumns(validCols, selectedRow, remainingRows, nn, rr, cols, diag1, diag2, regionMask, sol) ==
    IF validCols = <<>>
    THEN DnCResult(FALSE, remainingRows, regionMask, sol)
    ELSE LET col == Head(validCols)
             position == selectedRow * nn + col
             region == Get(rr, position)
             sub == dncQueens(remainingRows \ {selectedRow}, nn, rr,
                              WithBit(cols, col),
                              WithBit(diag1, selectedRow - col + nn - 1),
                              WithBit(diag2, selectedRow + col),
                              regionMask \cup {region},
                              Append(sol, position))
         IN IF sub.result
            THEN sub
            ELSE DnCColumns(Tail(validCols), selectedRow,
                            sub.remainingRows \cup {selectedRow}, nn, rr,
                            cols, diag1, diag2,
                            sub.regionMask \ {region},
                            SubSeq(sub.solution, 1, Len(sub.solution) - 1))

dncQueens(remainingRows, nn, rr, cols, diag1, diag2, regionMask, sol) ==
    IF remainingRows = {}
    THEN DnCResult(TRUE, remainingRows, regionMask, sol)
    ELSE LET selectedRow == findRowWithMinValidPlacements(
                                remainingRows, nn, rr, cols, diag1, diag2, regionMask)
         IN IF selectedRow = -1
            THEN DnCResult(FALSE, remainingRows, regionMask, sol)
            ELSE DnCColumns(DnCValidCols(selectedRow, nn, rr, cols, diag1, diag2,
                                         regionMask),
                            selectedRow, remainingRows, nn, rr, cols, diag1, diag2,
                            regionMask, sol)

solveDnC(nn, rr) ==
    IF rr = NullList \/ Len(rr) # nn * nn
    THEN QueensSolution(<<>>, FALSE, InvalidSize(nn))
    ELSE LET success == dncQueens(0..(nn - 1), nn, rr, 0, 0, 0, {}, <<>>)
         IN IF success.result
            THEN QueensSolution(success.solution, TRUE,
                     <<"Solved using DnC Backtracking with MRV + region constraints">>)
            ELSE QueensSolution(<<>>, FALSE,
                     <<"No solution found using DnC Backtracking">>)

(***************************************************************************)
(* The calls of dncQueens that one call makes, itself included, each with  *)
(* the arguments and the shared remainingRows, regionMask and solution it  *)
(* was entered with and the result and shared state it returned.  The loop *)
(* over validCols is followed as DnCColumns runs it: the next column is    *)
(* tried with the shared state the failed call and the three restoring     *)
(* statements have left.                                                   *)
(***************************************************************************)
DnCCall(remainingRows, cols, diag1, diag2, regionMask, sol, returned) ==
    [remainingRows |-> remainingRows, cols |-> cols, diag1 |-> diag1,
     diag2 |-> diag2, regionMask |-> regionMask, solution |-> sol,
     returned |-> returned]

RECURSIVE DnCCalls(_, _, _, _, _, _, _, _)
RECURSIVE DnCCallsBelow(_, _, _, _, _, _, _, _, _, _)
DnCCallsBelow(validCols, selectedRow, remainingRows, nn, rr, cols, diag1, diag2, regionMask, sol) ==
    IF validCols = <<>>
    THEN {}
    ELSE LET col == Head(validCols)
             position == selectedRow * nn + col
             region == Get(rr, position)
             sub == dncQueens(remainingRows \ {selectedRow}, nn, rr,
                              WithBit(cols, col),
                              WithBit(diag1, selectedRow - col + nn - 1),
                              WithBit(diag2, selectedRow + col),
                              regionMask \cup {region},
                              Append(sol, position))
         IN DnCCalls(remainingRows \ {selectedRow}, nn, rr,
                     WithBit(cols, col),
                     WithBit(diag1, selectedRow - col + nn - 1),
                     WithBit(diag2, selectedRow + col),
                     regionMask \cup {region},
                     Append(sol, position))
            \cup IF sub.result
                 THEN {}
                 ELSE DnCCallsBelow(Tail(validCols), selectedRow,
                                    sub.remainingRows \cup {selectedRow}, nn, rr,
                                    cols, diag1, diag2,
                                    sub.regionMask \ {region},
                                    SubSeq(sub.solution, 1, Len(sub.solution) - 1))

DnCCalls(remainingRows, nn, rr, cols, diag1, diag2, regionMask, sol) ==
    LET selectedRow == findRowWithMinValidPlacements(
                           remainingRows, nn, rr, cols, diag1, diag2, regionMask)
    IN {DnCCall(remainingRows, cols, diag1, diag2, regionMask, sol,
                dncQueens(remainingRows, nn, rr, cols, diag1, diag2, regionMask, sol))}
       \cup IF remainingRows = {} \/ selectedRow = -1
            THEN {}
            ELSE DnCCallsBelow(DnCValidCols(selectedRow, nn, rr, cols, diag1, diag2,
                                            regionMask),
                               selectedRow, remainingRows, nn, rr, cols, diag1,
                               diag2, regionMask, sol)

(* The calls of dncQueens in solveDnC(nn, rr) once the list has passed the *)
(* length test.                                                            *)
solveDnCCalls(nn, rr) == DnCCalls(0..(nn - 1), nn, rr, 0, 0, 0, {}, <<>>)

(***************************************************************************)
(* solveDnC in the two parts between which another call on the same        *)
(* service instance can run: the writes of the fields n, regions and       *)
(* solution, and the search, which reads the fields as they are then.  Its *)
(* remainingRows are built from the parameter n of the call.               *)
(***************************************************************************)
DnCFields(nn, rr, sol) == [n |-> nn, regions |-> rr, solution |-> sol]

(* this.n = n; this.regions = regions; this.solution = new ArrayList<>() *)
DnCBegin(nn, rr) == DnCFields(nn, rr, <<>>)

(* The first pass of findRowWithMinValidPlacements reads regions.get for   *)
(* column 0 of every remaining row in ascending order; a row beyond the    *)
(* board of the fields ends the call with an IndexOutOfBoundsException.    *)
DnCSearchThrows(callN, fields) == fields.n > 0 /\ callN > fields.n

(* The rest of solveDnC: its answer and the fields it leaves. *)
DnCSearch(callN, fields) ==
    LET success == CHOOSE r \in {dncQueens(0..(callN - 1), fields.n, fields.regions,
                                           0, 0, 0, {}, fields.solution)} : TRUE
    IN [answer |-> IF success.result
                   THEN QueensSolution(success.solution, TRUE,
                            <<"Solved using DnC Backtracking with MRV + region constraints">>)
                   ELSE QueensSolution(<<>>, FALSE,
                            <<"No solution found using DnC Backtracking">>),
        fields |-> DnCFields(fields.n, fields.regions, success.solution)]

(***************************************************************************)
(* The earlier DnCBacktrackingSolverService, which fills the rows in       *)
(* ascending order, and its getDnCMove, which searches on from the queens  *)
(* of the game and returns the first queen the search has added.           *)
(***************************************************************************)
RowOrderedResult(result, sol) == [result |-> result, solution |-> sol]

RECURSIVE dncQueensRowOrdered(_, _, _, _, _, _, _, _)
RECURSIVE RowOrderedColumns(_, _, _, _, _, _, _, _, _)
(* The loop over the columns of the row from column col on. *)
RowOrderedColumns(col, row, nn, rr, cols, diag1, diag2, regionMask, sol) ==
    IF col >= nn
    THEN RowOrderedResult(FALSE, sol)
    ELSE IF ~DnCColumnFree(row, col, nn, rr, cols, diag1, diag2, regionMask)
    THEN RowOrderedColumns(col + 1, row, nn, rr, cols, diag1, diag2, regionMask, sol)
    ELSE LET position == row * nn + col
             sub == dncQueensRowOrdered(row + 1, nn, rr, WithBit(cols, col),
                                        WithBit(diag1, row - col + nn - 1),
                                        WithBit(diag2, row + col),
                                        regionMask \cup {Get(rr, position)},
                                        Append(sol, position))
         IN IF sub.result
            THEN sub
            ELSE RowOrderedColumns(col + 1, row, nn, rr, cols, diag1, diag2,
                                   regionMask, sol)

dncQueensRowOrdered(row, nn, rr, cols, diag1, diag2, regionMask, sol) ==
    IF row = nn
    THEN RowOrderedResult(TRUE, sol)
    ELSE RowOrderedColumns(0, row, nn, rr, cols, diag1, diag2, regionMask, sol)

RECURSIVE WithBits(_, _)
WithBits(mask, indices) ==
    IF indices = <<>>
    THEN mask
    ELSE WithBits(WithBit(mask, Head(indices)), Tail(indices))

(* startRow: the first row without a queen, -1 on a board without one. *)
StartRow(queens, nn) ==
    LET empty == {r \in 0..(nn - 1) :
                     \A k \in 1..Len(queens) : JavaDiv(queens[k], nn) # r}
    IN IF empty = {} THEN -1 ELSE CHOOSE r \in empty : \A e \in empty : r <= e

getDnCMoveRowOrdered(gs, over) ==
    LET nn == gs.n
        queens == gs.queenPositions
        ks == 1..Len(queens)
        cols == WithBits(0, [k \in ks |-> JavaMod(queens[k], nn)])
        diag1 == WithBits(0, [k \in ks |-> JavaDiv(queens[k], nn)
                                             - JavaMod(queens[k], nn) + nn - 1])
        diag2 == WithBits(0, [k \in ks |-> JavaDiv(queens[k], nn)
                                             + JavaMod(queens[k], nn)])
        regionMask == {Get(gs.regions, queens[k]) : k \in ks}
        startRow == StartRow(queens, nn)
    IN IF over THEN -1
       ELSE IF startRow = -1 THEN -1
       ELSE LET found == dncQueensRowOrdered(startRow, nn, gs.regions, cols, diag1,
                                             diag2, regionMask, queens)
            IN IF found.result /\ Len(found.solution) > Len(queens)
               THEN found.solution[Len(queens) + 1]
               ELSE -1

(***************************************************************************)
(* MinimaxDpSolverService.solveMinimax: minimaxSolve plays the two-player  *)
(* game from the empty board and returns the line of play it prefers.  A   *)
(* result carries the memo table it leaves; isNull is the null reference.  *)
(***************************************************************************)
SolveResult(score, moveSequence, bestMove, memo) ==
    [isNull |-> FALSE, score |-> score, moveSequence |-> moveSequence,
     bestMove |-> bestMove, memo |-> memo]

NullResult(memo) ==
    [isNull |-> TRUE, score |-> 0, moveSequence |-> <<>>, bestMove |-> -1,
     memo |-> memo]

PutResult(memo, key, score, moveSequence, bestMove) ==
    (key :> [score |-> score, moveSequence |-> moveSequence, bestMove |-> bestMove])
        @@ memo

(* The comparator of validMoves.sort: the distance of a cell to the centre. *)
CenterDistance(a, nn) ==
    Abs(JavaDiv(a, nn) - JavaDiv(nn, 2)) + Abs(JavaMod(a, nn) - JavaDiv(nn, 2))

(* List.sort is stable: cells of equal distance keep their order. *)
RECURSIVE InsertByCenter(_, _, _)
InsertByCenter(sorted, x, nn) ==
    IF sorted = <<>> THEN <<x>>
    ELSE IF CenterDistance(x, nn) <= CenterDistance(Head(sorted), nn)
    THEN <<x>> \o sorted
    ELSE <<Head(sorted)>> \o InsertByCenter(Tail(sorted), x, nn)

RECURSIVE SortByCenter(_, _)
SortByCenter(list, nn) ==
    IF list = <<>>
    THEN <<>>
    ELSE InsertByCenter(SortByCenter(Tail(list), nn), Head(list), nn)

RECURSIVE minimaxSolve(_, _, _, _, _, _)
RECURSIVE MinimaxSolveLoop(_, _, _, _, _, _, _, _, _, _, _, _)

(* The for loop of minimaxSolve from move number i on; found tells whether *)
(* bestResult is set and bestSequence is its moveSequence.                 *)
MinimaxSolveLoop(gs, depth, isMaximizing, moves, i, found, bestSequence, bestMove, bestScore, alpha, beta, memo) ==
    IF i > Len(moves)
    THEN IF found
         THEN SolveResult(bestScore, <<bestMove>> \o bestSequence, bestMove,
                  PutResult(memo, generateKey(gs, depth, isMaximizing), bestScore,
                            <<bestMove>> \o bestSequence, bestMove))
         ELSE NullResult(memo)
    ELSE LET childResult == minimaxSolve(MinimaxMakeMove(gs, moves[i]), depth + 1,
                                         ~isMaximizing, alpha, beta, memo)
             score == childResult.score
             better == /\ ~childResult.isNull
                       /\ IF isMaximizing THEN score > bestScore ELSE score < bestScore
             newFound == found \/ better
             newSequence == IF better THEN childResult.moveSequence ELSE bestSequence
             newScore == IF better THEN score ELSE bestScore
             newMove == IF better THEN moves[i] ELSE bestMove
             newAlpha == IF isMaximizing /\ better THEN Max2(alpha, score) ELSE alpha
             newBeta == IF ~isMaximizing /\ better THEN Min2(beta, score) ELSE beta
         IN IF ~childResult.isNull /\ newBeta <= newAlpha
            THEN MinimaxSolveLoop(gs, depth, isMaximizing, moves, Len(moves) + 1,
                                  newFound, newSequence, newMove, newScore,
                                  newAlpha, newBeta, childResult.memo)
            ELSE MinimaxSolveLoop(gs, depth, isMaximizing, moves, i + 1,
                                  newFound, newSequence, newMove, newScore,
                                  newAlpha, newBeta, childResult.memo)

minimaxSolve(gs, depth, isMaximizing, alpha, beta, memo) ==
    LET key == generateKey(gs, depth, isMaximizing)
    IN IF key \in DOMAIN memo
       THEN SolveResult(memo[key].score, memo[key].moveSequence,
                        memo[key].bestMove, memo)
       ELSE LET moves == MinimaxGetAllValidPositions(gs)
            IN IF Len(moves) = 0
               THEN LET score == IF isMaximizing THEN LOSE_SCORE + depth
                                                 ELSE WIN_SCORE - depth
                    IN SolveResult(score, <<>>, -1,
                                   PutResult(memo, key, score, <<>>, -1))
               ELSE IF depth >= MAX_DEPTH
               THEN LET score == evaluateGameState(gs, isMaximizing)
                    IN SolveResult(score, <<>>, -1,
                                   PutResult(memo, key, score, <<>>, -1))
               ELSE IF Len(moves) = 1
               THEN LET move == moves[1]
                        childResult == minimaxSolve(MinimaxMakeMove(gs, move),
                                           depth + 1, ~isMaximizing, alpha, beta, memo)
                        sequence == <<move>> \o childResult.moveSequence
                    IN IF childResult.isNull
                       THEN NullResult(childResult.memo)
                       ELSE SolveResult(childResult.score, sequence, move,
                                PutResult(childResult.memo, key, childResult.score,
                                          sequence, move))
               ELSE MinimaxSolveLoop(gs, depth, isMaximizing,
                        SortByCenter(moves, gs.n), 1, FALSE, <<>>, -1,
                        IF isMaximizing THEN MIN_VALUE ELSE MAX_VALUE,
                        alpha, beta, memo)

solveMinimax(nn, rr) ==
    IF rr = NullList \/ Len(rr) # nn * nn
    THEN QueensSolution(<<>>, FALSE, InvalidSize(nn))
    ELSE LET result == CHOOSE r \in {minimaxSolve(State(nn, rr, <<>>, 1), 0, TRUE,
                                          MIN_VALUE, MAX_VALUE, EmptyMemo)} : TRUE
         IN IF ~result.isNull
            THEN QueensSolution(result.moveSequence, TRUE,
                     <<"Solved using Minimax-based Dynamic Programming with score: ",
                       ToString(result.score)>>)
            ELSE QueensSolution(<<>>, FALSE,
                     <<"No valid solution found using Minimax-based Dynamic Programming.">>)

(***************************************************************************)
(* DPOptimizedSolverService.  The service instance keeps                   *)
(* attackPatternCache, from a position to the set of positions a queen on  *)
(* it attacks, and gameStateCache, from the key of a game state to the     *)
(* DPResult computed for it.  regionMoveCache is read and written only by  *)
(* getRegionOptimizedMove, which nothing calls, and is left out.           *)
(***************************************************************************)
EmptyCache == [key \in {} |-> 0]

calculateAttackedPositions(position, nn) ==
    LET row == JavaDiv(position, nn)
        col == JavaMod(position, nn)
        ds == 1..(nn - 1)
    IN ({row * nn + c : c \in 0..(nn - 1)}
        \cup {r * nn + col : r \in 0..(nn - 1)}
        \cup {(row + d) * nn + (col + d) : d \in {e \in ds : row + e < nn /\ col + e < nn}}
        \cup {(row - d) * nn + (col - d) : d \in {e \in ds : row - e >= 0 /\ col - e >= 0}}
        \cup {(row + d) * nn + (col - d) : d \in {e \in ds : row + e < nn /\ col - e >= 0}}
        \cup {(row - d) * nn + (col + d) : d \in {e \in ds : row - e >= 0 /\ col + e < nn}})
       \ {position}

(* The entries of the positions below n*n are replaced, the others stay. *)
initializeAttackCache(cache, nn) ==
    [pos \in DOMAIN cache \cup 0..(nn * nn - 1) |->
        IF pos < nn * nn THEN calculateAttackedPositions(pos, nn) ELSE cache[pos]]

(* isSafe of the service: the region test, then the cached pattern of the  *)
(* position if the cache holds one, else the direct test.                  *)
DPIsSafe(cache, queens, position, nn, rr) ==
    /\ \A k \in 1..Len(queens) : Get(rr, queens[k]) # Get(rr, position)
    /\ IF position \in DOMAIN cache
       THEN \A k \in 1..Len(queens) : queens[k] \notin cache[position]
       ELSE LET row == JavaDiv(position, nn)
                col == JavaMod(position, nn)
            IN \A k \in 1..Len(queens) :
                  LET qRow == JavaDiv(queens[k], nn)
                      qCol == JavaMod(queens[k], nn)
                  IN ~(\/ row = qRow
                       \/ col = qCol
                       \/ (row - col) = (qRow - qCol)
                       \/ (row + col) = (qRow + qCol))

DPGetAllValidPositions(cache, gs) ==
    SelectSeq(Cells(gs.n),
              LAMBDA pos : DPIsSafe(cache, gs.queenPositions, pos, gs.n, gs.regions))

(* getRegionPattern: the set of the regions that hold a queen. *)
getRegionPattern(gs) ==
    {Get(gs.regions, gs.queenPositions[k]) : k \in 1..Len(gs.queenPositions)}

createStateKey(gs) ==
    <<gs.n, Sort(gs.queenPositions), gs.currentPlayer, getRegionPattern(gs)>>

evaluatePosition(cache, gs) ==
    Len(DPGetAllValidPositions(cache, gs)) * 10 + Len(gs.queenPositions)

DPResult4(positions, solved, cacheHits, bestMove) ==
    [queenPositions |-> positions, solved |-> solved, cacheHits |-> cacheHits,
     bestMove |-> bestMove]

(* The loop of getDPOptimizedMove from move number i on. *)
RECURSIVE DPMoveLoop(_, _, _, _, _, _)
DPMoveLoop(cache, gs, moves, i, bestMove, bestScore) ==
    IF i > Len(moves)
    THEN bestMove
    ELSE LET score == evaluatePosition(cache, MinimaxMakeMove(gs, moves[i]))
         IN IF score > bestScore
            THEN DPMoveLoop(cache, gs, moves, i + 1, moves[i], score)
            ELSE DPMoveLoop(cache, gs, moves, i + 1, bestMove, bestScore)

(* The move getDPOptimizedMove returns and the gameStateCache it leaves. *)
getDPOptimizedMove(gs, over, cache, states) ==
    LET stateKey == createStateKey(gs)
        moves == DPGetAllValidPositions(cache, gs)
    IN IF over
       THEN [bestMove |-> -1, gameStateCache |-> states]
       ELSE IF stateKey \in DOMAIN states
       THEN [bestMove |-> states[stateKey].bestMove, gameStateCache |-> states]
       ELSE IF Len(moves) = 0
       THEN [bestMove |-> -1, gameStateCache |-> states]
       ELSE LET bestMove == DPMoveLoop(cache, gs, moves, 1, -1, MIN_VALUE)
            IN [bestMove |-> bestMove,
                gameStateCache |->
                    (stateKey :> DPResult4(gs.queenPositions, ~over, 0, bestMove))
                        @@ states]

(* solveWithMemoization.  The memo holds the DPResult objects; a hit        *)
(* increments the cacheHits of the object it returns, and the result of a  *)
(* state reads the cacheHits of its best sub-result when its loop ends.    *)
(* The value is the key of the result and the memo.                        *)
RECURSIVE solveWithMemoization(_, _, _)
RECURSIVE DPSolveLoop(_, _, _, _, _, _, _)
DPSolveLoop(cache, gs, moves, i, bestKey, maxQueens, memo) ==
    IF i > Len(moves)
    THEN LET stateKey == createStateKey(gs)
             finalResult ==
                 IF maxQueens >= 0
                 THEN [queenPositions |-> memo[bestKey].queenPositions,
                       solved |-> TRUE,
                       cacheHits |-> memo[bestKey].cacheHits + 1]
                 ELSE [queenPositions |-> gs.queenPositions, solved |-> FALSE,
                       cacheHits |-> 1]
         IN [key |-> stateKey, memo |-> (stateKey :> finalResult) @@ memo]
    ELSE LET sub == solveWithMemoization(cache, MinimaxMakeMove(gs, moves[i]), memo)
             subResult == sub.memo[sub.key]
         IN IF subResult.solved /\ Len(subResult.queenPositions) > maxQueens
            THEN DPSolveLoop(cache, gs, moves, i + 1, sub.key,
                             Len(subResult.queenPositions), sub.memo)
            ELSE DPSolveLoop(cache, gs, moves, i + 1, bestKey, maxQueens, sub.memo)

solveWithMemoization(cache, gs, memo) ==
    LET stateKey == createStateKey(gs)
    IN IF stateKey \in DOMAIN memo
       THEN [key |-> stateKey,
             memo |-> [memo EXCEPT ![stateKey].cacheHits = @ + 1]]
       ELSE LET moves == DPGetAllValidPositions(cache, gs)
            IN IF Len(moves) = 0
               THEN [key |-> stateKey,
                     memo |-> (stateKey :>
                                  [queenPositions |-> gs.queenPositions,
                                   solved |-> Len(gs.queenPositions) = gs.n,
                                   cacheHits |-> 1]) @@ memo]
               ELSE DPSolveLoop(cache, gs, moves, 1, stateKey, -1, memo)

(* The answer of solveDPOptimized and the attackPatternCache it leaves. *)
solveDPOptimized(nn, rr, cache) ==
    IF rr = NullList \/ Len(rr) # nn * nn
    THEN [answer |-> QueensSolution(<<>>, FALSE, InvalidSize(nn)),
          attackPatternCache |-> cache]
    ELSE LET filled == initializeAttackCache(cache, nn)
             found == CHOOSE r \in {solveWithMemoization(filled, State(nn, rr, <<>>, 1),
                                                         EmptyMemo)} : TRUE
             result == found.memo[found.key]
         IN [answer |->
                IF result.solved
                THEN QueensSolution(result.queenPositions, TRUE,
                         <<"Successfully solved using DP optimization with ",
                           ToString(result.cacheHits), " cache hits">>)
                ELSE QueensSolution(<<>>, FALSE,
                         <<"No solution found using DP optimization">>),
             attackPatternCache |-> filled]

(***************************************************************************)
(* Requests.  The region lists a client may send with initializeGame: the  *)
(* partitions the board generator produces, and malformed lists (wrong     *)
(* number of ids, too short, too long, empty).                             *)
(***************************************************************************)
RowBands(nn) == [i \in 1..(nn * nn) |-> (i - 1) \div nn]

Latin(nn) == [i \in 1..(nn * nn) |-> (((i - 1) \div nn) + ((i - 1) % nn)) % nn]

ScenarioA == <<0, 1, 2, 3, 1, 0, 3, 2, 2, 3, 0, 1, 3, 2, 1, 0>>

OneRegion(nn) == [i \in 1..(nn * nn) |-> 0]

TooShort(nn) == [i \in 1..(nn * nn - 1) |-> (i - 1) \div nn]

(* Largest board size requested without any region constraint. *)
MaxFreeN == 3

RegionInputs(nn) ==
    {RowBands(nn), Latin(nn), ScenarioA, OneRegion(nn), TooShort(nn)}
        \cup (IF nn <= MaxFreeN THEN {<<>>} ELSE {})

Sizes == 1..MaxN

(* The positions a client may send with makeMove: every cell, one below    *)
(* the board and one above it.                                             *)
Positions(nn) == (-1)..(nn * nn)

(* The solverType a getAIMove request carries; "dp" is what initializeGame *)
(* sets and selects the default branch, minimax.                           *)
SolverTypes == {"greedy", "dnc", "dp"}

PlayerName(player) == IF player = 1 THEN "Player 1" ELSE "Player 2"

(* regions has length n*n and holds exactly n distinct ids. *)
WellFormed(nn, rr) ==
    /\ Len(rr) = nn * nn
    /\ Cardinality(Range(rr)) = nn

(***************************************************************************)
(* Init: the GameState of the no-argument constructor, before any request. *)
(***************************************************************************)
Init ==
    /\ n = 0
    /\ regions = <<>>
    /\ queenPositions = <<>>
    /\ currentPlayer = 0
    /\ gameOver = FALSE
    /\ winner = Null
    /\ message = <<Null>>
    /\ validMoves = <<>>
    /\ player1Queens = 0
    /\ player2Queens = 0
    /\ solution = NoSolution
    /\ attackPatternCache = EmptyCache
    /\ gameStateCache = EmptyCache
    /\ BoardDefaults

GameFields == <<n, regions, queenPositions, currentPlayer, gameOver, winner,
                message, validMoves, player1Queens, player2Queens>>

(* A request that ends in an exception (an IndexOutOfBoundsException of    *)
(* regions.get) returns no GameState: the client keeps the one it sent.    *)
Throw == UNCHANGED GameFields

(***************************************************************************)
(* QueensGameService.initializeGame.  Its result does not depend on the    *)
(* state of the client.                                                    *)
(***************************************************************************)
(* initializeGame that leaves the valid moves of the constructor. *)
initializeGame_NoValidMoves(nn, rr) ==
    /\ ~getAllValidPositionsThrows(State(nn, rr, <<>>, 1))
    /\ n' = nn
    /\ regions' = rr
    /\ queenPositions' = <<>>
    /\ currentPlayer' = 1
    /\ gameOver' = FALSE
    /\ winner' = Null
    /\ message' = <<"Game initialized. Player 1's turn.">>
    /\ validMoves' = <<>>
    /\ player1Queens' = 0
    /\ player2Queens' = 0

initializeGame(nn, rr) ==
    LET gameState == State(nn, rr, <<>>, 1)
    IN IF getAllValidPositionsThrows(gameState)
       THEN Throw
       ELSE /\ n' = nn
            /\ regions' = rr
            /\ queenPositions' = <<>>
            /\ currentPlayer' = 1
            /\ gameOver' = FALSE
            /\ winner' = Null
            /\ message' = <<"Game initialized. Player 1's turn.">>
            /\ validMoves' = getAllValidPositions(gameState)
            /\ player1Queens' = 0
            /\ player2Queens' = 0

(* QueensGameController.initGame: the client asks for its first board. *)
InitGame(nn, rr) ==
    /\ n = 0
    /\ initializeGame(nn, rr)
    /\ UNCHANGED <<solution, attackPatternCache, gameStateCache, BoardFields>>

(* A reset that clears the board and keeps the outcome of the old game. *)
ResetGame_KeepsOutcome ==
    /\ n > 0
    /\ ~getAllValidPositionsThrows(State(n, regions, <<>>, 1))
    /\ queenPositions' = <<>>
    /\ currentPlayer' = 1
    /\ message' = <<"Game initialized. Player 1's turn.">>
    /\ validMoves' = getAllValidPositions(State(n, regions, <<>>, 1))
    /\ player1Queens' = 0
    /\ player2Queens' = 0
    /\ UNCHANGED <<n, regions, gameOver, winner, solution, attackPatternCache,
                   gameStateCache, BoardFields>>

(* QueensGameController.resetGame: a new game on the board of the state. *)
ResetGame ==
    /\ n > 0
    /\ initializeGame(n, regions)
    /\ UNCHANGED <<solution, attackPatternCache, gameStateCache, BoardFields>>

(***************************************************************************)
(* QueensGameService.makeMove.  Move.player is never read: the queen is    *)
(* credited to gameState.currentPlayer.                                    *)
(***************************************************************************)
(* A commit that names the stuck opponent as winner. *)
Commit_StuckPlayerWins(position) ==
    LET placed == State(n, regions, Append(queenPositions, position), currentPlayer)
    IN IF getAllValidPositionsThrows(placed)
       THEN Throw
       ELSE \E moves \in {getAllValidPositions(placed)} :
            /\ queenPositions' = Append(queenPositions, position)
            /\ player1Queens' = IF currentPlayer = 1 THEN player1Queens + 1 ELSE player1Queens
            /\ player2Queens' = IF currentPlayer = 1 THEN player2Queens ELSE player2Queens + 1
            /\ IF Len(moves) = 0
               THEN /\ gameOver' = TRUE
                    /\ winner' = PlayerName(Other(currentPlayer))
                    /\ message' = <<PlayerName(Other(currentPlayer)), " wins! Opponent has no valid moves.">>
                    /\ UNCHANGED <<currentPlayer, validMoves>>
               ELSE /\ currentPlayer' = Other(currentPlayer)
                    /\ validMoves' = moves
                    /\ message' = <<"Player ", ToString(Other(currentPlayer)), "'s turn. ",
                                    ToString(Len(moves)), " valid moves available.">>
                    /\ UNCHANGED <<gameOver, winner>>
            /\ UNCHANGED <<n, regions>>

(* A commit that never hands the turn over. *)
Commit_KeepsTurn(position) ==
    LET placed == State(n, regions, Append(queenPositions, position), currentPlayer)
    IN IF getAllValidPositionsThrows(placed)
       THEN Throw
       ELSE \E moves \in {getAllValidPositions(placed)} :
            /\ queenPositions' = Append(queenPositions, position)
            /\ player1Queens' = IF currentPlayer = 1 THEN player1Queens + 1 ELSE player1Queens
            /\ player2Queens' = IF currentPlayer = 1 THEN player2Queens ELSE player2Queens + 1
            /\ IF Len(moves) = 0
               THEN /\ gameOver' = TRUE
                    /\ winner' = PlayerName(currentPlayer)
                    /\ message' = <<PlayerName(currentPlayer), " wins! Opponent has no valid moves.">>
                    /\ UNCHANGED <<currentPlayer, validMoves>>
               ELSE /\ currentPlayer' = currentPlayer
                    /\ validMoves' = moves
                    /\ message' = <<"Player ", ToString(currentPlayer), "'s turn. ",
                                    ToString(Len(moves)), " valid moves available.">>
                    /\ UNCHANGED <<gameOver, winner>>
            /\ UNCHANGED <<n, regions>>

(* A commit that ends the game only when the board holds n queens. *)
Commit_EndsOnFullBoard(position) ==
    LET placed == State(n, regions, Append(queenPositions, position), currentPlayer)
    IN IF getAllValidPositionsThrows(placed)
       THEN Throw
       ELSE \E moves \in {getAllValidPositions(placed)} :
            /\ queenPositions' = Append(queenPositions, position)
            /\ player1Queens' = IF currentPlayer = 1 THEN player1Queens + 1 ELSE player1Queens
            /\ player2Queens' = IF currentPlayer = 1 THEN player2Queens ELSE player2Queens + 1
            /\ IF Len(queenPositions) + 1 = n
               THEN /\ gameOver' = TRUE
                    /\ winner' = PlayerName(currentPlayer)
                    /\ message' = <<PlayerName(currentPlayer), " wins! Opponent has no valid moves.">>
                    /\ UNCHANGED <<currentPlayer, validMoves>>
               ELSE /\ currentPlayer' = Other(currentPlayer)
                    /\ validMoves' = moves
                    /\ message' = <<"Player ", ToString(Other(currentPlayer)), "'s turn. ",
                                    ToString(Len(moves)), " valid moves available.">>
                    /\ UNCHANGED <<gameOver, winner>>
            /\ UNCHANGED <<n, regions>>

(* A commit that never ends the game. *)
Commit_NeverEnds(position) ==
    LET placed == State(n, regions, Append(queenPositions, position), currentPlayer)
    IN IF getAllValidPositionsThrows(placed)
       THEN Throw
       ELSE \E moves \in {getAllValidPositions(placed)} :
            /\ queenPositions' = Append(queenPositions, position)
            /\ player1Queens' = IF currentPlayer = 1 THEN player1Queens + 1 ELSE player1Queens
            /\ player2Queens' = IF currentPlayer = 1 THEN player2Queens ELSE player2Queens + 1
            /\ currentPlayer' = Other(currentPlayer)
            /\ validMoves' = moves
            /\ message' = <<"Player ", ToString(Other(currentPlayer)), "'s turn. ",
                            ToString(Len(moves)), " valid moves available.">>
            /\ UNCHANGED <<gameOver, winner>>
            /\ UNCHANGED <<n, regions>>

(* A commit that puts the new queen in front of the list. *)
Commit_Prepends(position) ==
    LET placed == State(n, regions, <<position>> \o queenPositions, currentPlayer)
    IN IF getAllValidPositionsThrows(placed)
       THEN Throw
       ELSE \E moves \in {getAllValidPositions(placed)} :
            /\ queenPositions' = <<position>> \o queenPositions
            /\ player1Queens' = IF currentPlayer = 1 THEN player1Queens + 1 ELSE player1Queens
            /\ player2Queens' = IF currentPlayer = 1 THEN player2Queens ELSE player2Queens + 1
            /\ IF Len(moves) = 0
               THEN /\ gameOver' = TRUE
                    /\ winner' = PlayerName(currentPlayer)
                    /\ message' = <<PlayerName(currentPlayer), " wins! Opponent has no valid moves.">>
                    /\ UNCHANGED <<currentPlayer, validMoves>>
               ELSE /\ currentPlayer' = Other(currentPlayer)
                    /\ validMoves' = moves
                    /\ message' = <<"Player ", ToString(Other(currentPlayer)), "'s turn. ",
                                    ToString(Len(moves)), " valid moves available.">>
                    /\ UNCHANGED <<gameOver, winner>>
            /\ UNCHANGED <<n, regions>>

Commit(position) ==
    LET placed == State(n, regions, Append(queenPositions, position), currentPlayer)
    IN IF getAllValidPositionsThrows(placed)
       THEN Throw
       ELSE \E moves \in {getAllValidPositions(placed)} :
            /\ queenPositions' = Append(queenPositions, position)
            /\ player1Queens' = IF currentPlayer = 1 THEN player1Queens + 1 ELSE player1Queens
            /\ player2Queens' = IF currentPlayer = 1 THEN player2Queens ELSE player2Queens + 1
            /\ IF Len(moves) = 0
               THEN /\ gameOver' = TRUE
                    /\ winner' = PlayerName(currentPlayer)
                    /\ message' = <<PlayerName(currentPlayer), " wins! Opponent has no valid moves.">>
                    /\ UNCHANGED <<currentPlayer, validMoves>>
               ELSE /\ currentPlayer' = Other(currentPlayer)
                    /\ validMoves' = moves
                    /\ message' = <<"Player ", ToString(Other(currentPlayer)), "'s turn. ",
                                    ToString(Len(moves)), " valid moves available.">>
                    /\ UNCHANGED <<gameOver, winner>>
            /\ UNCHANGED <<n, regions>>

InvalidMove == <<"Invalid move! Queen would be under attack.">>

(* makeMove that hands the turn over even when it rejects the move. *)
MakeMoveBody_RejectionFlipsTurn(position) ==
    IF isSafeThrows(Current, position)
    THEN Throw
    ELSE IF ~isSafe(Current, position)
    THEN /\ message' = InvalidMove
         /\ currentPlayer' = Other(currentPlayer)
         /\ UNCHANGED <<n, regions, queenPositions, gameOver, winner,
                        validMoves, player1Queens, player2Queens>>
    ELSE Commit(position)

MakeMoveBody(position) ==
    IF isSafeThrows(Current, position)
    THEN Throw
    ELSE IF ~isSafe(Current, position)
    THEN /\ message' = InvalidMove
         /\ UNCHANGED <<n, regions, queenPositions, currentPlayer, gameOver, winner,
                        validMoves, player1Queens, player2Queens>>
    ELSE Commit(position)

(* The three ways a makeMove request ends, as functions of the state it    *)
(* is sent with.                                                           *)
makeMoveThrows(position) ==
    \/ isSafeThrows(Current, position)
    \/ /\ isSafe(Current, position)
       /\ getAllValidPositionsThrows(
              State(n, regions, Append(queenPositions, position), currentPlayer))

makeMoveRejects(position) ==
    /\ ~isSafeThrows(Current, position)
    /\ ~isSafe(Current, position)

makeMoveCommits(position) ==
    /\ ~makeMoveThrows(position)
    /\ isSafe(Current, position)

MakeMove(position) ==
    /\ n > 0
    /\ MakeMoveBody(position)
    /\ UNCHANGED <<solution, attackPatternCache, gameStateCache, BoardFields>>

(***************************************************************************)
(* QueensGameService.getAIMove; the request carries the solverType.        *)
(***************************************************************************)
StrategyThrows(type) ==
    IF type = "greedy" THEN greedyMoveThrows(Current)
    ELSE IF type = "dnc" THEN getDnCMoveThrows(Current)
    ELSE getMinimaxMoveThrows(Current)

Strategy(type) ==
    IF type = "greedy" THEN greedyMove(Current)
    ELSE IF type = "dnc" THEN getDnCMove(Current, gameOver)
    ELSE getMinimaxMove(Current, gameOver)

(* getAIMove that declares the player without a move the winner. *)
GetAIMove_StuckPlayerWins(type) ==
    /\ n > 0
    /\ UNCHANGED <<solution, attackPatternCache, gameStateCache, BoardFields>>
    /\ IF gameOver
       THEN UNCHANGED GameFields
       ELSE IF StrategyThrows(type)
       THEN Throw
       ELSE \E bestPosition \in {Strategy(type)} :
               IF bestPosition = -1
               THEN /\ gameOver' = TRUE
                    /\ winner' = PlayerName(currentPlayer)
                    /\ message' = <<PlayerName(currentPlayer), " wins! AI has no valid moves.">>
                    /\ UNCHANGED <<n, regions, queenPositions, currentPlayer,
                                   validMoves, player1Queens, player2Queens>>
               ELSE MakeMoveBody(bestPosition)

(* getAIMove that asks the strategy even when the game is over. *)
GetAIMove_NoTerminalCheck(type) ==
    /\ n > 0
    /\ UNCHANGED <<solution, attackPatternCache, gameStateCache, BoardFields>>
    /\ IF StrategyThrows(type)
       THEN Throw
       ELSE \E bestPosition \in {Strategy(type)} :
               IF bestPosition = -1
               THEN /\ gameOver' = TRUE
                    /\ winner' = PlayerName(Other(currentPlayer))
                    /\ message' = <<PlayerName(Other(currentPlayer)), " wins! AI has no valid moves.">>
                    /\ UNCHANGED <<n, regions, queenPositions, currentPlayer,
                                   validMoves, player1Queens, player2Queens>>
               ELSE MakeMoveBody(bestPosition)

GetAIMove(type) ==
    /\ n > 0
    /\ UNCHANGED <<solution, attackPatternCache, gameStateCache, BoardFields>>
    /\ IF gameOver
       THEN UNCHANGED GameFields
       ELSE IF StrategyThrows(type)
       THEN Throw
       ELSE \E bestPosition \in {Strategy(type)} :
               IF bestPosition = -1
               THEN /\ gameOver' = TRUE
                    /\ winner' = PlayerName(Other(currentPlayer))
                    /\ message' = <<PlayerName(Other(currentPlayer)), " wins! AI has no valid moves.">>
                    /\ UNCHANGED <<n, regions, queenPositions, currentPlayer,
                                   validMoves, player1Queens, player2Queens>>
               ELSE MakeMoveBody(bestPosition)

(***************************************************************************)
(* QueensGameService.getAllValidMoves.                                     *)
(***************************************************************************)
(* getAllValidMoves that adds the valid positions to the stored list. *)
GetAllValidMoves_Appends ==
    /\ n > 0
    /\ UNCHANGED <<solution, attackPatternCache, gameStateCache, BoardFields>>
    /\ IF getAllValidPositionsThrows(Current)
       THEN Throw
       ELSE /\ validMoves' = validMoves \o getAllValidPositions(Current)
            /\ message' = <<ToString(Len(getAllValidPositions(Current))),
                            " valid moves available.">>
            /\ UNCHANGED <<n, regions, queenPositions, currentPlayer, gameOver, winner,
                           player1Queens, player2Queens>>

GetAllValidMoves ==
    /\ n > 0
    /\ UNCHANGED <<solution, attackPatternCache, gameStateCache, BoardFields>>
    /\ IF getAllValidPositionsThrows(Current)
       THEN Throw
       ELSE /\ UNCHANGED <<n, regions, queenPositions, currentPlayer, gameOver, winner,
                           player1Queens, player2Queens>>
            /\ \E moves \in {getAllValidPositions(Current)} :
                  /\ validMoves' = moves
                  /\ message' = <<ToString(Len(moves)), " valid moves available.">>

Next ==
    \/ \E nn \in Sizes : \E rr \in RegionInputs(nn) : InitGame(nn, rr)
    \/ ResetGame
    \/ \E position \in Positions(n) : MakeMove(position)
    \/ \E type \in SolverTypes : GetAIMove(type)
    \/ GetAllValidMoves

Spec == Init /\ [][Next]_vars

(***************************************************************************)
(* One game played to its end: after initializeGame only makeMove and      *)
(* getAIMove requests arrive.  The players keep submitting valid moves:    *)
(* a makeMove request that commits is not withheld forever while one is    *)
(* possible.  Requests that are rejected or throw may arrive in between    *)
(* at any time and in any number.                                          *)
(***************************************************************************)
MaxPlayN == 3

NextPlay ==
    \/ \E nn \in 1..MaxPlayN : \E rr \in RegionInputs(nn) : InitGame(nn, rr)
    \/ \E position \in Positions(n) : MakeMove(position)
    \/ \E type \in SolverTypes : GetAIMove(type)

CommittingMove ==
    /\ \E position \in Positions(n) : MakeMove(position)
    /\ Len(queenPositions') = Len(queenPositions) + 1

SpecPlay == Init /\ [][NextPlay]_vars /\ WF_vars(CommittingMove)

(***************************************************************************)
(* QueensSolverService: the divide-and-conquer solver.                     *)
(***************************************************************************)
(* The helper structure Placement; a null reference is the record with     *)
(* isNull set.                                                             *)
Placement(rows, cols, diag1, diag2, positions) ==
    [isNull |-> FALSE, rows |-> rows, cols |-> cols, diag1 |-> diag1,
     diag2 |-> diag2, queenPositions |-> positions]

NewPlacement == Placement({}, {}, {}, {}, <<>>)

NullPlacement == [NewPlacement EXCEPT !.isNull = TRUE]

(* Placement.tryPlace: what it returns, and the sets it leaves when it     *)
(* returns true.                                                           *)
tryPlace(p, nn, pos) ==
    LET r == JavaDiv(pos, nn)
        c == JavaMod(pos, nn)
    IN ~(r \in p.rows \/ c \in p.cols \/ (r - c) \in p.diag1 \/ (r + c) \in p.diag2)

Placed(p, nn, pos) ==
    LET r == JavaDiv(pos, nn)
        c == JavaMod(pos, nn)
    IN [p EXCEPT !.rows = @ \cup {r}, !.cols = @ \cup {c},
                 !.diag1 = @ \cup {r - c}, !.diag2 = @ \cup {r + c}]

(* regionCells.get(region): the cells of the region in ascending order. *)
regionCells(rr, region) ==
    SelectSeq([i \in 1..Len(rr) |-> i - 1], LAMBDA i : Get(rr, i) = region)

(* regionList.sort(comparingInt(size of the region)): a stable sort. *)
RECURSIVE InsertBySize(_, _, _)
InsertBySize(sorted, x, rr) ==
    IF sorted = <<>> THEN <<x>>
    ELSE IF Len(regionCells(rr, x)) < Len(regionCells(rr, Head(sorted)))
    THEN <<x>> \o sorted
    ELSE <<Head(sorted)>> \o InsertBySize(Tail(sorted), x, rr)

RECURSIVE SortBySize(_, _)
SortBySize(list, rr) ==
    IF list = <<>> THEN <<>>
    ELSE InsertBySize(SortBySize(SubSeq(list, 1, Len(list) - 1), rr),
                      list[Len(list)], rr)

(* new ArrayList<>(regionCells.keySet()): a HashMap of Integer keys below  *)
(* its table size iterates in ascending order of the keys.                 *)
RECURSIVE KeySetList(_)
KeySetList(ids) ==
    IF ids = {} THEN <<>>
    ELSE LET least == CHOOSE x \in ids : \A y \in ids : x <= y
         IN <<least>> \o KeySetList(ids \ {least})

regionList(rr) == SortBySize(KeySetList(Range(rr)), rr)

(* The loop of combine over the queens of b. *)
RECURSIVE CombineLoop(_, _, _)
CombineLoop(merged, positions, nn) ==
    IF positions = <<>>
    THEN merged
    ELSE IF ~tryPlace(merged, nn, Head(positions))
    THEN NullPlacement
    ELSE CombineLoop([Placed(merged, nn, Head(positions))
                          EXCEPT !.queenPositions = Append(@, Head(positions))],
                     Tail(positions), nn)

combine(nn, a, b) == CombineLoop(a, b.queenPositions, nn)

(* The base case of dncSolve: the options of one region, of which the      *)
(* first is returned.                                                      *)
dncSolveLeaf(nn, rr, region) ==
    LET cells == regionCells(rr, region)
        valid == SelectSeq(cells, LAMBDA pos : tryPlace(NewPlacement, nn, pos))
        options == [k \in 1..Len(valid) |->
                       [Placed(NewPlacement, nn, valid[k])
                           EXCEPT !.queenPositions = <<valid[k]>>]]
    IN IF options = <<>> THEN NullPlacement ELSE options[1]

RECURSIVE dncSolve(_, _, _, _, _)
dncSolve(nn, rr, list, left, right) ==
    IF left = right
    THEN dncSolveLeaf(nn, rr, Get(list, left))
    ELSE LET mid == left + JavaDiv(right - left, 2)
             leftSol == dncSolve(nn, rr, list, left, mid)
         IN IF leftSol.isNull
            THEN NullPlacement
            ELSE LET rightSol == dncSolve(nn, rr, list, mid + 1, right)
                 IN IF rightSol.isNull
                    THEN NullPlacement
                    ELSE combine(nn, leftSol, rightSol)

(* dncSolve(n, ..., 0, -1) on an empty regionList reads regionList.get(0). *)
solveDivideAndConquerThrows(nn, rr) ==
    rr # NullList /\ Len(rr) = nn * nn /\ nn = 0

solveDivideAndConquer(nn, rr) ==
    IF rr = NullList \/ Len(rr) # nn * nn
    THEN QueensSolution(<<>>, FALSE, InvalidSize(nn))
    ELSE LET list == regionList(rr)
         IN IF Len(list) # nn
            THEN QueensSolution(<<>>, FALSE,
                     <<"Expected exactly ", ToString(nn), " regions, but found ",
                       ToString(Len(list))>>)
            ELSE LET result == dncSolve(nn, rr, list, 0, Len(list) - 1)
                 IN IF ~result.isNull /\ Len(result.queenPositions) = nn
                    THEN QueensSolution(result.queenPositions, TRUE,
                             <<"Solved using Divide & Conquer strategy (split regions, recurse, combine).">>)
                    ELSE QueensSolution(<<>>, FALSE,
                             <<"No valid solution found using Divide & Conquer.">>)

(***************************************************************************)
(* The standalone solvers.  A solve request carries n and regions; the     *)
(* solvers read nothing else and return a QueensSolution.  The third       *)
(* specification starts from a board of any size up to MaxSolveN with a    *)
(* regions list that is partitioned well, repainted in one cell (with the  *)
(* id 0 or with a new id), of a wrong length, or null, and applies the     *)
(* solvers to it.                                                          *)
(***************************************************************************)
(* Largest board sent to a solver. *)
MaxSolveN == 6

Repaint(rr, i, id) == [rr EXCEPT ![i] = id]

SolveInputs(nn) ==
    {NullList, RowBands(nn), Latin(nn), OneRegion(nn), TooShort(nn), ScenarioA,
     Append(RowBands(nn), 0)}
        \cup {Repaint(RowBands(nn), i, id) : i \in 1..(nn * nn), id \in {0, nn}}
        \cup {Repaint(Latin(nn), i, id) : i \in 1..(nn * nn), id \in {0, nn}}

InitSolve ==
    /\ n \in 0..MaxSolveN
    /\ regions \in SolveInputs(n)
    /\ queenPositions = <<>>
    /\ currentPlayer = 0
    /\ gameOver = FALSE
    /\ winner = Null
    /\ message = <<Null>>
    /\ validMoves = <<>>
    /\ player1Queens = 0
    /\ player2Queens = 0
    /\ solution = NoSolution
    /\ attackPatternCache = EmptyCache
    /\ gameStateCache = EmptyCache
    /\ BoardDefaults

SolveDP ==
    /\ solution' = solveDP(n, regions)
    /\ UNCHANGED GameFields
    /\ UNCHANGED <<attackPatternCache, gameStateCache, BoardFields>>

SolveDnC ==
    /\ solution' = solveDnC(n, regions)
    /\ UNCHANGED GameFields
    /\ UNCHANGED <<attackPatternCache, gameStateCache, BoardFields>>

NextSolve ==
    \/ SolveDP
    \/ SolveDnC

SpecSolve == InitSolve /\ [][NextSolve]_vars

(***************************************************************************)
(* The minimax solver behind the "minimax" solve request searches the game *)
(* tree; its specification sends it the same lists on boards up to         *)
(* MaxMinimaxSolveN.                                                       *)
(***************************************************************************)
MaxMinimaxSolveN == 4

InitSolveMinimax ==
    /\ n \in 0..MaxMinimaxSolveN
    /\ regions \in SolveInputs(n)
    /\ queenPositions = <<>>
    /\ currentPlayer = 0
    /\ gameOver = FALSE
    /\ winner = Null
    /\ message = <<Null>>
    /\ validMoves = <<>>
    /\ player1Queens = 0
    /\ player2Queens = 0
    /\ solution = NoSolution
    /\ attackPatternCache = EmptyCache
    /\ gameStateCache = EmptyCache
    /\ BoardDefaults

SolveMinimax ==
    /\ solution' = solveMinimax(n, regions)
    /\ UNCHANGED GameFields
    /\ UNCHANGED <<attackPatternCache, gameStateCache, BoardFields>>

NextSolveMinimax == SolveMinimax

SpecSolveMinimax == InitSolveMinimax /\ [][NextSolveMinimax]_vars

(***************************************************************************)
(* The divide-and-conquer solver of QueensSolverService is sent the same   *)
(* lists.  A request that ends in an exception returns no QueensSolution.  *)
(***************************************************************************)
SolveDivideAndConquer ==
    /\ IF solveDivideAndConquerThrows(n, regions)
       THEN UNCHANGED solution
       ELSE solution' = solveDivideAndConquer(n, regions)
    /\ UNCHANGED GameFields
    /\ UNCHANGED <<attackPatternCache, gameStateCache, BoardFields>>

NextDivide == SolveDivideAndConquer

SpecDivide == InitSolve /\ [][NextDivide]_vars

(***************************************************************************)
(* The solver services are singletons and the requests of different        *)
(* clients run on different threads.  The fifth specification answers a    *)
(* solveDnC request while a second solveDnC request, for a board of its    *)
(* own, is served by the same instance: the second call has not touched    *)
(* the fields before the search of the first ("alone"), has written them   *)
(* ("begun"), or has run to its end ("finished") between the writes and    *)
(* the search of the first.  The fields are not synchronized, so each of   *)
(* the three can happen.                                                   *)
(***************************************************************************)
MaxSharedN == 4

Schedules == {"alone", "begun", "finished"}

(* The boards of the second request, which pass the validation. *)
SharedBoards(nn) == {RowBands(nn), Latin(nn)}

InitShared ==
    /\ n \in 0..MaxSharedN
    /\ regions \in SolveInputs(n)
    /\ queenPositions = <<>>
    /\ currentPlayer = 0
    /\ gameOver = FALSE
    /\ winner = Null
    /\ message = <<Null>>
    /\ validMoves = <<>>
    /\ player1Queens = 0
    /\ player2Queens = 0
    /\ solution = NoSolution
    /\ attackPatternCache = EmptyCache
    /\ gameStateCache = EmptyCache
    /\ BoardDefaults

SolveDnCShared(otherN, otherRegions, schedule) ==
    /\ UNCHANGED GameFields
    /\ UNCHANGED <<attackPatternCache, gameStateCache, BoardFields>>
    /\ IF regions = NullList \/ Len(regions) # n * n
       THEN solution' = QueensSolution(<<>>, FALSE, InvalidSize(n))
       ELSE LET fields == IF schedule = "alone"
                          THEN DnCBegin(n, regions)
                          ELSE IF schedule = "begun"
                          THEN DnCBegin(otherN, otherRegions)
                          ELSE DnCSearch(otherN, DnCBegin(otherN, otherRegions)).fields
            IN IF DnCSearchThrows(n, fields)
               THEN UNCHANGED solution
               ELSE solution' = DnCSearch(n, fields).answer

NextShared ==
    \E otherN \in 0..MaxSharedN : \E otherRegions \in SharedBoards(otherN) :
        \E schedule \in Schedules : SolveDnCShared(otherN, otherRegions, schedule)

SpecShared == InitShared /\ [][NextShared]_vars

(***************************************************************************)
(* The service keeps no state: a request may carry any GameState.  The     *)
(* second specification starts from such a request, a legal placement of   *)
(* a few queens on a well-formed board with the gameOver flag either way   *)
(* and either player to move, and applies getAIMove and getAllValidMoves   *)
(* to it.                                                                  *)
(***************************************************************************)
(* Largest board of a hand-made request. *)
MaxRequestN == 4

(* Most queens of a hand-made request. *)
MaxRequestQueens == 1

RECURSIVE Placements(_, _, _)
Placements(nn, rr, len) ==
    IF len = 0
    THEN {<<>>}
    ELSE LET shorter == Placements(nn, rr, len - 1)
         IN shorter \cup
            {Append(q, c) : <<q, c>> \in
                {<<q, c>> \in shorter \X (0..(nn * nn - 1)) :
                    isSafe(State(nn, rr, q, 1), c)}}

InitRequest ==
    /\ n \in 1..MaxRequestN
    /\ regions \in {RowBands(n), Latin(n)}
    /\ queenPositions \in Placements(n, regions, MaxRequestQueens)
    /\ currentPlayer \in {1, 2}
    /\ gameOver \in BOOLEAN
    /\ winner = Null
    /\ message = <<Null>>
    /\ validMoves = <<>>
    /\ player1Queens = 0
    /\ player2Queens = 0
    /\ solution = NoSolution
    /\ attackPatternCache = EmptyCache
    /\ gameStateCache = EmptyCache
    /\ BoardDefaults

NextRequest ==
    \/ \E type \in SolverTypes : GetAIMove(type)
    \/ GetAllValidMoves

SpecRequest == InitRequest /\ [][NextRequest]_vars

(* The same requests answered by the greedy strategy alone. *)
NextGreedy == GetAIMove("greedy")

SpecGreedy == InitRequest /\ [][NextGreedy]_vars

(* The requests on which the search of getMinimaxMove is compared with the *)
(* plain minimax: one queen placed by player 1 on a board of row bands up  *)
(* to MaxSearchN, player 2 to move, answered by getAIMove with the minimax *)
(* strategy.                                                               *)
MaxSearchN == 6

InitSearch ==
    /\ n \in 1..MaxSearchN
    /\ regions = RowBands(n)
    /\ queenPositions \in {<<c>> : c \in 0..(n * n - 1)}
    /\ currentPlayer = 2
    /\ gameOver = FALSE
    /\ winner = Null
    /\ message = <<Null>>
    /\ validMoves = <<>>
    /\ player1Queens = 1
    /\ player2Queens = 0
    /\ solution = NoSolution
    /\ attackPatternCache = EmptyCache
    /\ gameStateCache = EmptyCache
    /\ BoardDefaults

NextSearch == GetAIMove("dp")

SpecSearch == InitSearch /\ [][NextSearch]_vars

(***************************************************************************)
(* The DP-optimized service is a singleton whose caches live as long as    *)
(* the server.  The sixth specification starts with empty caches and       *)
(* serves solveDPOptimized, getDPOptimizedMove and clearCache requests in  *)
(* any order; the game states of the move requests are those of the        *)
(* hand-made requests on boards up to MaxCacheN.  A move request that      *)
(* would add an entry to a gameStateCache of MaxCacheEntries entries is    *)
(* not served.                                                             *)
(***************************************************************************)
MaxCacheN == 3

MaxCacheQueens == 1

MaxCacheEntries == 1

CacheRequests ==
    UNION {{State(nn, rr, queens, IF Len(queens) % 2 = 0 THEN 1 ELSE 2) :
               queens \in Placements(nn, rr, MaxCacheQueens)} :
           <<nn, rr>> \in {<<nn, rr>> \in (1..MaxCacheN) \X
                              UNION {{RowBands(k), Latin(k)} : k \in 1..MaxCacheN} :
                              Len(rr) = nn * nn}}

SolveDPOptimized(nn, rr) ==
    /\ \E out \in {solveDPOptimized(nn, rr, attackPatternCache)} :
          /\ solution' = out.answer
          /\ attackPatternCache' = out.attackPatternCache
    /\ UNCHANGED GameFields
    /\ UNCHANGED <<gameStateCache, BoardFields>>

GetDPOptimizedMove(gs, over) ==
    /\ \/ over
       \/ createStateKey(gs) \in DOMAIN gameStateCache
       \/ Cardinality(DOMAIN gameStateCache) < MaxCacheEntries
    /\ gameStateCache' =
          getDPOptimizedMove(gs, over, attackPatternCache, gameStateCache).gameStateCache
    /\ UNCHANGED GameFields
    /\ UNCHANGED <<solution, attackPatternCache, BoardFields>>

ClearCache ==
    /\ attackPatternCache' = EmptyCache
    /\ gameStateCache' = EmptyCache
    /\ UNCHANGED GameFields
    /\ UNCHANGED <<solution, BoardFields>>

NextCache ==
    \/ \E nn \in 0..MaxCacheN : \E rr \in {RowBands(nn), Latin(nn), NullList} :
          SolveDPOptimized(nn, rr)
    \/ \E gs \in CacheRequests : \E over \in BOOLEAN : GetDPOptimizedMove(gs, over)
    \/ ClearCache

SpecCache == Init /\ [][NextCache]_vars

(***************************************************************************)
(* The vocabulary of the properties: legality as the specification words   *)
(* it, on the cells of the board.                                          *)
(***************************************************************************)
Row(cell) == cell \div n

Col(cell) == cell % n

Board == 0..(n * n - 1)

SameLine(a, b) ==
    \/ Row(a) = Row(b)
    \/ Col(a) = Col(b)
    \/ Row(a) - Col(a) = Row(b) - Col(b)
    \/ Row(a) + Col(a) = Row(b) + Col(b)

RegionOf(cell) == regions[cell + 1]

(* A game on a board whose regions list has length n*n and n ids. *)
GameWellFormed == n > 0 /\ WellFormed(n, regions)

(* The cells that share no row, column or diagonal with a queen of the     *)
(* list and whose region holds none of them.                               *)
SafeCell(queens, c) ==
    \A k \in 1..Len(queens) :
        /\ ~SameLine(c, queens[k])
        /\ RegionOf(c) # RegionOf(queens[k])

SafeCells(queens) == {c \in Board : SafeCell(queens, c)}

GameFrame == <<n, regions, queenPositions, currentPlayer, gameOver, winner,
               validMoves, player1Queens, player2Queens>>

OffBoard == {-1, n * n}

(* A step that commits one queen. *)
Committed ==
    /\ Len(queenPositions') = Len(queenPositions) + 1
    /\ SubSeq(queenPositions', 1, Len(queenPositions)) = queenPositions

(* C1: makeMove with a cell of the board that is attacked by a placed      *)
(* queen, or lies in a region that holds a queen, changes nothing but the  *)
(* message, which becomes the diagnostic.                                  *)
C1_IllegalMoveKeepsState ==
    [][\/ (UNCHANGED GameFrame /\ message' = InvalidMove)
       \/ ~GameWellFormed
       \/ \A p \in Board \ SafeCells(queenPositions) : ~MakeMove(p)]_vars

(* A rejection has happened on a board with a queen, and neither position  *)
(* off the board is one this state rejects: the rejected position was a    *)
(* cell of the board.                                                      *)
C1_Witness ==
    /\ GameWellFormed
    /\ Len(queenPositions) > 0
    /\ message = InvalidMove
    /\ \A p \in OffBoard : ~makeMoveRejects(p)

(* C2: on a well-formed board the placed queens are pairwise non-attacking *)
(* and lie in pairwise distinct regions.                                   *)
C2_QueensLegal ==
    GameWellFormed =>
        \A i, j \in 1..Len(queenPositions) :
            i < j => /\ queenPositions[i] \in Board
                     /\ queenPositions[j] \in Board
                     /\ ~SameLine(queenPositions[i], queenPositions[j])
                     /\ RegionOf(queenPositions[i]) # RegionOf(queenPositions[j])

C2_Witness ==
    /\ GameWellFormed
    /\ n = 4
    /\ Len(queenPositions) = 4

C5_TerminalClearsValidMoves ==
    [][(GameWellFormed /\ Committed /\ gameOver') => validMoves' = <<>>]_vars

(* C6: in a game in progress the stored validMoves are exactly the safe    *)
(* cells, so none of them shares a row, a column, a diagonal or the region *)
(* of the queen committed last.                                            *)
C6_ValidMovesExact ==
    (GameWellFormed /\ ~gameOver) =>
        /\ Range(validMoves) = SafeCells(queenPositions)
        /\ Len(validMoves) = Cardinality(SafeCells(queenPositions))
        /\ Len(queenPositions) > 0 =>
              \A k \in 1..Len(validMoves) :
                  LET p == queenPositions[Len(queenPositions)]
                  IN /\ ~SameLine(validMoves[k], p)
                     /\ RegionOf(validMoves[k]) # RegionOf(p)

(* Scenario B: after the commit at cell 0 of the Scenario A board. *)
C6_Witness ==
    /\ n = 4
    /\ regions = ScenarioA
    /\ queenPositions = <<0>>
    /\ currentPlayer = 2
    /\ ~gameOver
    /\ validMoves = <<6, 7, 9, 11, 13, 14>>

(* C7: makeMove with a position off the board is rejected: it raises no    *)
(* exception and commits nothing.                                          *)
C7_OffBoardRejected ==
    GameWellFormed => \A p \in OffBoard : makeMoveRejects(p)

(* C8: a game exists only for a regions list of length n*n with exactly n  *)
(* ids: initializeGame returns no playable state for any other list.       *)
C8_MalformedRegionsRefused ==
    n > 0 => WellFormed(n, regions)

(* The state a new game on an nn x nn board with regions rr opens with. *)
OpeningState(nn, rr) ==
    /\ n' = nn
    /\ regions' = rr
    /\ currentPlayer' = 1
    /\ queenPositions' = <<>>
    /\ gameOver' = FALSE
    /\ player1Queens' = 0
    /\ player2Queens' = 0
    /\ validMoves' = [i \in 1..(nn * nn) |-> i - 1]

(* C9: initializeGame returns the opening state: player 1 to move, no      *)
(* queens, not over, both counts 0, every cell of the board a valid move.  *)
C9_OpeningState ==
    /\ n = 0 =>
          \A nn \in Sizes : \A rr \in RegionInputs(nn) :
              WellFormed(nn, rr) =>
                  ~ENABLED (InitGame(nn, rr) /\ ~OpeningState(nn, rr))
    /\ GameWellFormed =>
          ~ENABLED (ResetGame /\ ~OpeningState(n, regions))

(* Scenario A. *)
C9_Witness ==
    /\ n = 4
    /\ regions = ScenarioA
    /\ message = <<"Game initialized. Player 1's turn.">>
    /\ Len(validMoves) = 16
    /\ ~gameOver

(* C10: getAllValidMoves changes only validMoves and the message, and its  *)
(* result is a fixed point: a second application returns the same          *)
(* validMoves and message.                                                 *)
C10_ValidMovesIdempotent ==
    (n > 0 /\ ~getAllValidPositionsThrows(Current)) =>
        ~ENABLED (/\ GetAllValidMoves
                  /\ ~(/\ UNCHANGED <<n, regions, queenPositions, currentPlayer,
                                      gameOver, winner, player1Queens, player2Queens>>
                       /\ LET again == getAllValidPositions(
                                           State(n', regions', queenPositions',
                                                 currentPlayer'))
                          IN /\ again = validMoves'
                             /\ <<ToString(Len(again)), " valid moves available.">>
                                    = message'))

C10_Witness ==
    /\ GameWellFormed
    /\ Len(queenPositions) > 0
    /\ message = <<ToString(Len(validMoves)), " valid moves available.">>
    /\ Len(validMoves) > 0

(* C11: resetGame, from any state with a board, finished games included,   *)
(* returns the opening state of initializeGame on the same n and regions:  *)
(* no queens, player 1 to move, not over, no winner, both counts 0, every  *)
(* cell a valid move.                                                      *)
C11_ResetReinitializes ==
    n > 0 =>
        ~ENABLED (/\ ResetGame
                  /\ ~(/\ OpeningState(n, regions)
                       /\ winner' = Null
                       /\ message' = <<"Game initialized. Player 1's turn.">>))

(* A finished game with queens on the board, from which the reset leads to *)
(* an open game without a winner.                                          *)
C11_Witness ==
    /\ GameWellFormed
    /\ gameOver
    /\ winner # Null
    /\ Len(queenPositions) > 1
    /\ ENABLED (ResetGame /\ ~gameOver' /\ winner' = Null /\ queenPositions' = <<>>)

(* C12: when the selected strategy returns -1 for a game that is not over, *)
(* getAIMove leaves queenPositions as they are and returns a finished game *)
(* whose winner is the opponent of currentPlayer.                          *)
C12_NoMoveEndsGame ==
    \A type \in SolverTypes :
        (/\ n > 0
         /\ ~gameOver
         /\ ~StrategyThrows(type)
         /\ Strategy(type) = -1) =>
            /\ ENABLED (GetAIMove(type) /\ gameOver')
            /\ ~ENABLED (/\ GetAIMove(type)
                         /\ ~(/\ queenPositions' = queenPositions
                              /\ gameOver' = TRUE
                              /\ winner' = PlayerName(Other(currentPlayer))))

(* Player 1 was to move on a board without a safe cell: player 2 has won   *)
(* and no queen was added.                                                 *)
C12_Witness ==
    /\ gameOver
    /\ currentPlayer = 1
    /\ winner = "Player 2"
    /\ message = <<"Player 2", " wins! AI has no valid moves.">>
    /\ Len(queenPositions) > 0
    /\ SafeCells(queenPositions) = {}

(* C13: greedyMove returns -1 exactly when the state has no valid move,    *)
(* and otherwise a cell that is a valid move of the state.                 *)
C13_GreedyMoveValid ==
    GameWellFormed =>
        \E m \in {greedyMove(Current)} :
            /\ (m = -1) <=> (SafeCells(queenPositions) = {})
            /\ (m # -1) => (m \in SafeCells(queenPositions))

(* The greedy strategy has answered a request with one queen on a 4 x 4    *)
(* board by a second queen.                                                *)
C13_Witness ==
    /\ GameWellFormed
    /\ n = 4
    /\ Len(queenPositions) = 2
    /\ ~gameOver
    /\ player1Queens + player2Queens = 1
    /\ queenPositions[2] =
           greedyMove(State(n, regions, <<queenPositions[1]>>, Other(currentPlayer)))
    /\ greedyMove(Current) # -1

(* The number of valid moves on the board once cell m holds a queen too. *)
MovesAfter(m) == Cardinality(SafeCells(Append(queenPositions, m)))

C15_MinimaxMoveValid ==
    GameWellFormed =>
        \E m \in {getMinimaxMove(Current, gameOver)} :
            /\ (~gameOver /\ SafeCells(queenPositions) # {})
                   => m \in SafeCells(queenPositions)
            /\ (m = -1) => (gameOver \/ SafeCells(queenPositions) = {})
            /\ (m # -1) => (m \in SafeCells(queenPositions))

(* Minimax has answered a request with one queen on a 4 x 4 board by a     *)
(* second queen, and has a move for the next request too.                  *)
C15_Witness ==
    /\ GameWellFormed
    /\ n = 4
    /\ Len(queenPositions) = 2
    /\ ~gameOver
    /\ player1Queens + player2Queens = 1
    /\ queenPositions[2] =
           getMinimaxMove(State(n, regions, <<queenPositions[1]>>,
                                Other(currentPlayer)), FALSE)
    /\ getMinimaxMove(Current, gameOver) # -1

FullLegal(queens) ==
    /\ Len(queens) = n
    /\ \A k \in 1..Len(queens) : queens[k] \in Board
    /\ \A row \in 0..(n - 1) :
          Cardinality({k \in 1..Len(queens) : Row(queens[k]) = row}) = 1
    /\ \A j, k \in 1..Len(queens) : j # k => ~SameLine(queens[j], queens[k])
    /\ \A id \in Range(regions) :
          Cardinality({k \in 1..Len(queens) : RegionOf(queens[k]) = id}) = 1

(* The state holds the answer of solveDP to its n and regions. *)
AnsweredByDP == solution = solveDP(n, regions)

(* The bitmask of a set of bit indices. *)
RECURSIVE MaskOf(_)
MaskOf(S) ==
    IF S = {}
    THEN 0
    ELSE LET k == CHOOSE x \in S : TRUE
         IN Shl(k) + MaskOf(S \ {k})

(* The memo key of the search state in which exactly the queens of the     *)
(* list stand, one in each of the rows 0 .. Len(queens) - 1.               *)
KeyOf(queens) ==
    LET ks == 1..Len(queens)
    IN DPKey(Len(queens),
             MaskOf({Col(queens[k]) : k \in ks}),
             MaskOf({Row(queens[k]) - Col(queens[k]) + n : k \in ks}),
             MaskOf({Row(queens[k]) + Col(queens[k]) : k \in ks}),
             MaskOf({regionIdToBitIndex(regions, RegionOf(queens[k])) : k \in ks}))

(* The legal placements of one queen in each of the rows 0 .. rows - 1. *)
RECURSIVE LegalPrefixes(_)
LegalPrefixes(rows) ==
    IF rows = 0
    THEN {<<>>}
    ELSE {Append(q, (rows - 1) * n + col) : <<q, col>> \in
             {<<q, col>> \in LegalPrefixes(rows - 1) \X (0..(n - 1)) :
                 SafeCell(q, (rows - 1) * n + col)}}

(* The dead ends solveDP has recorded when it returns. *)
DeadEnds ==
    DOMAIN solveRecursive(0, n, boardRegionBits(regions), 0, 0, 0, 0, <<>>,
                          EmptyMemo).memo

(* One pass over all legal placements that extend the queens row by row:   *)
(* whether the queens can be completed to a full legal placement, and      *)
(* whether the key of some placement that can be completed is among the    *)
(* dead ends.                                                              *)
RECURSIVE Survey(_, _)
Survey(queens, dead) ==
    IF Len(queens) = n
    THEN [completable |-> TRUE, rejected |-> FALSE]
    ELSE LET below == {Survey(Append(queens, Len(queens) * n + col), dead) :
                          col \in {c \in 0..(n - 1) :
                                      SafeCell(queens, Len(queens) * n + c)}}
             completable == \E b \in below : b.completable
         IN [completable |-> completable,
             rejected |-> \/ completable /\ KeyOf(queens) \in dead
                          \/ \E b \in below : b.rejected]

(* C17: a solution solveDP returns with solved = true has n positions, one *)
(* in each row, no two on a common column or diagonal, and exactly one in  *)
(* each region.                                                            *)
C17_DPSolutionLegal ==
    \E answer \in {solveDP(n, regions)} :
        answer.solved => FullLegal(answer.queenPositions)

(* solveDP has answered a 4 x 4 board whose regions are not the rows with  *)
(* a full legal placement.                                                 *)
C17_Witness ==
    /\ n = 4
    /\ solution.solved
    /\ AnsweredByDP
    /\ regions # RowBands(n)
    /\ FullLegal(solution.queenPositions)

(* C18: for a regions list of length n*n with n ids solveDP answers        *)
(* solved = true exactly when a full legal placement exists, and answers   *)
(* solved = false with no positions and a diagnostic otherwise; no dead    *)
(* end in its memo is the key of a placement that can still be completed.  *)
C18_DPSolvesExactly ==
    (regions # NullList /\ WellFormed(n, regions)) =>
        \E answer \in {solveDP(n, regions)} :
            \E survey \in {Survey(<<>>, DeadEnds)} :
                /\ answer.solved <=> survey.completable
                /\ ~answer.solved =>
                      /\ answer.queenPositions = <<>>
                      /\ answer.message =
                            <<"No solution found using Dynamic Programming.">>
                /\ ~survey.rejected

(* The search, which tries the columns in ascending order, comes to the    *)
(* placement before it comes to the solution.                              *)
TriedBefore(placement, found) ==
    \E i \in 1..Len(placement) :
        /\ placement[i] < found[i]
        /\ \A j \in 1..(i - 1) : placement[j] = found[j]

(* solveDP has solved a 6 x 6 board on which two different placements     *)
(* with the same key come before the solution in the order of the search:  *)
(* the second was answered from the memo, or the search was cut short by   *)
(* the memo even earlier.                                                  *)
C18_Witness ==
    /\ n = 6
    /\ solution.solved
    /\ AnsweredByDP
    /\ WellFormed(n, regions)
    /\ \E rows \in 1..(n - 1) : \E p, q \in LegalPrefixes(rows) :
          /\ p # q
          /\ KeyOf(p) = KeyOf(q)
          /\ KeyOf(p) \in DeadEnds
          /\ TriedBefore(p, solution.queenPositions)
          /\ TriedBefore(q, solution.queenPositions)

(* regions is null, of a length other than n*n, or holds a number of ids   *)
(* other than n.                                                           *)
Malformed ==
    \/ regions = NullList
    \/ Len(regions) # n * n
    \/ Cardinality(Range(regions)) # n

(* The diagnostics of the validation of solveDP. *)
ValidationDiagnostics ==
    {InvalidSize(n)}
        \cup {<<"Invalid number of regions. Expected ", ToString(n),
                ", found ", ToString(k)>> : k \in 0..(n * n)}

(* C19: for a regions list that is null, of a length other than n*n or     *)
(* with a number of ids other than n, solveDP answers solved = false with  *)
(* no positions and a diagnostic of its validation, not the one of the     *)
(* search.                                                                 *)
C19_DPRejectsMalformed ==
    Malformed =>
        \E answer \in {solveDP(n, regions)} :
            /\ ~answer.solved
            /\ answer.queenPositions = <<>>
            /\ answer.message \in ValidationDiagnostics

(* solveDP has refused a 4 x 4 board of the right length with five ids, on *)
(* which a placement with one queen per row, column and region exists.     *)
C19_Witness ==
    /\ n = 4
    /\ regions # NullList
    /\ Len(regions) = n * n
    /\ Cardinality(Range(regions)) = n + 1
    /\ solution = QueensSolution(<<>>, FALSE,
                      <<"Invalid number of regions. Expected ", "4", ", found ", "5">>)
    /\ solveDnC(n, regions).solved

(* C20: the other solver entry points refuse a regions list of the right   *)
(* length whose number of ids is not n before they search: solveDnC        *)
(* answers it with solved = false and a diagnostic that is not the one of  *)
(* its search.                                                             *)
C20_OtherSolversRejectRegionCount ==
    (regions # NullList /\ Len(regions) = n * n /\ Cardinality(Range(regions)) # n) =>
        \E answer \in {solveDnC(n, regions)} :
            /\ ~answer.solved
            /\ answer.message # <<"No solution found using DnC Backtracking">>

(* queens has n cells, one in each row, no two on a common column or        *)
(* diagonal and no two in a common region.                                 *)
LegalPlacement(queens) ==
    /\ Len(queens) = n
    /\ \A k \in 1..Len(queens) : queens[k] \in Board
    /\ \A row \in 0..(n - 1) :
          Cardinality({k \in 1..Len(queens) : Row(queens[k]) = row}) = 1
    /\ \A j, k \in 1..Len(queens) :
          j # k => /\ ~SameLine(queens[j], queens[k])
                   /\ RegionOf(queens[j]) # RegionOf(queens[k])

(* The state holds the answer of solveDnC to its n and regions. *)
AnsweredByDnC == solution = solveDnC(n, regions)

(* C21: a solution solveDnC returns with solved = true has exactly n       *)
(* positions, one in each row, no two attacking each other and no two in   *)
(* a common region.                                                        *)
C21_DnCSolutionLegal ==
    \E answer \in {solveDnC(n, regions)} :
        answer.solved => LegalPlacement(answer.queenPositions)

(* solveDnC has solved a board of size 4 or more and has not placed the    *)
(* queens in the order of the rows: the row with the fewest valid columns  *)
(* was not the next row.                                                   *)
C21_Witness ==
    /\ n >= 4
    /\ solution.solved
    /\ AnsweredByDnC
    /\ LegalPlacement(solution.queenPositions)
    /\ \E k \in 1..(n - 1) :
          solution.queenPositions[k] > solution.queenPositions[k + 1]

(* C22: for a regions list of length n*n with n ids, a solution            *)
(* solveMinimax has returned with solved = true has exactly n positions,   *)
(* no two attacking each other, and one queen in each region.              *)
C22_MinimaxSolutionLegal ==
    (regions # NullList /\ WellFormed(n, regions) /\ solution.solved) =>
        FullLegal(solution.queenPositions)

(* The valid moves of the state after which the opponent has no valid move. *)
InstantWins == {w \in SafeCells(queenPositions) :
                   SafeCells(Append(queenPositions, w)) = {}}

(* C23: when a game that is not over has a valid move after which the      *)
(* opponent has no valid move, getDnCMove returns such a move.             *)
C23_DnCTakesInstantWin ==
    (GameWellFormed /\ ~gameOver) =>
        \E wins \in {InstantWins} :
            wins # {} => getDnCMove(Current, gameOver) \in wins

(* The dnc strategy has won a game on a board of size 3 or more with a     *)
(* move that was not the first valid move of the state it was asked about. *)
C23_Witness ==
    /\ n >= 3
    /\ GameWellFormed
    /\ gameOver
    /\ Len(queenPositions) > 0
    /\ winner = PlayerName(currentPlayer)
    /\ SafeCells(queenPositions) = {}
    /\ LET before == SubSeq(queenPositions, 1, Len(queenPositions) - 1)
           move == queenPositions[Len(queenPositions)]
       IN /\ move = getDnCMove(State(n, regions, before, currentPlayer), FALSE)
          /\ move # DnCValidMoves(before, n, regions)[1]

(* The first row of the board without a queen of the list. *)
FirstEmptyRow(queens) ==
    CHOOSE row \in 0..(n - 1) :
        /\ \A k \in 1..Len(queens) : Row(queens[k]) # row
        /\ \A r \in 0..(row - 1) : \E k \in 1..Len(queens) : Row(queens[k]) = r

(* The queens of a legal list can be extended to a full legal placement of *)
(* n queens.                                                               *)
RECURSIVE Extendable(_)
Extendable(queens) ==
    IF Len(queens) >= n
    THEN TRUE
    ELSE \E col \in 0..(n - 1) :
            LET cell == FirstEmptyRow(queens) * n + col
            IN SafeCell(queens, cell) /\ Extendable(Append(queens, cell))

(* C24: when a game that is not over, with fewer than n queens, has no     *)
(* instantly winning move, getDnCMove returns -1 exactly when the queens   *)
(* placed cannot be extended to a full legal placement, and otherwise a    *)
(* valid move with which they still can.  The property is stated for the   *)
(* move of either version of getDnCMove: it fails only in a state in which *)
(* both versions break it.                                                 *)
C24_DnCFollowsCompletion ==
    (GameWellFormed /\ ~gameOver /\ Len(queenPositions) < n /\ InstantWins = {}) =>
        \E m \in {getDnCMove(Current, gameOver),
                   getDnCMoveRowOrdered(Current, gameOver)} :
            /\ (m = -1) <=> ~Extendable(queenPositions)
            /\ (m # -1) => /\ m \in SafeCells(queenPositions)
                           /\ Extendable(Append(queenPositions, m))

(* C25: a solveDnC call that shares the service instance with a second    *)
(* solveDnC call returns a result that is right for its own n and regions: *)
(* solved exactly when solveDnC on its own solves the board, and then with *)
(* a legal placement of n queens for its regions.                          *)
C25_DnCReentrant ==
    solution # NoSolution =>
        /\ solution.solved <=> solveDnC(n, regions).solved
        /\ solution.solved => LegalPlacement(solution.queenPositions)

(* C26: whatever solveDPOptimized, getDPOptimizedMove and clearCache calls *)
(* the service has served, its safety test answers every cell of every     *)
(* game state it may be asked about next as the direct computation does,   *)
(* which is the test with no cached pattern.                               *)
C26_AttackCacheTransparent ==
    \A gs \in CacheRequests : \A pos \in 0..(gs.n * gs.n - 1) :
        DPIsSafe(attackPatternCache, gs.queenPositions, pos, gs.n, gs.regions)
            = DPIsSafe(EmptyCache, gs.queenPositions, pos, gs.n, gs.regions)

(* The fields of the game state that a finished game keeps. *)
Outcome == <<queenPositions, currentPlayer, winner, gameOver, player1Queens, player2Queens>>

(* A step that starts a game afresh, as initializeGame and the reset do. *)
StartsAfresh ==
    /\ ~gameOver'
    /\ queenPositions' = <<>>
    /\ currentPlayer' = 1
    /\ winner' = Null

SearchingTypes == {"dnc", "dp"}

C29_GameTerminates ==
    /\ []((n > 0 /\ ~gameOver) => Len(queenPositions) < n)
    /\ (n > 0) ~> gameOver

(* A game on the 3x3 board that the second player's commit has ended with  *)
(* two queens placed.                                                      *)
C29_Witness ==
    /\ GameWellFormed
    /\ n = 3
    /\ gameOver
    /\ Len(queenPositions) = 2
    /\ winner = "Player 2"

C31_MinimaxTakesInstantWin ==
    (GameWellFormed /\ ~gameOver) =>
        \E wins \in {InstantWins} :
            wins # {} => getMinimaxMove(Current, gameOver) \in wins

(* The minimax strategy has won a game on a board of size 3 or more with a *)
(* move that was not the first valid move of the state it was asked about, *)
(* and that state had a valid move that does not win at once.              *)
C31_Witness ==
    /\ n >= 3
    /\ GameWellFormed
    /\ gameOver
    /\ Len(queenPositions) > 0
    /\ winner = PlayerName(currentPlayer)
    /\ SafeCells(queenPositions) = {}
    /\ LET before == SubSeq(queenPositions, 1, Len(queenPositions) - 1)
           move == queenPositions[Len(queenPositions)]
           first == MinimaxGetAllValidPositions(State(n, regions, before, currentPlayer))[1]
       IN /\ move = getMinimaxMove(State(n, regions, before, currentPlayer), FALSE)
          /\ move # first
          /\ SafeCells(Append(before, first)) # {}

(* The reference of the pruning claim: minimax to depth MAX_DEPTH over the *)
(* same moves in the same order, keeping the first move of the best score, *)
(* without alpha, beta or memo table.                                      *)
RECURSIVE PlainMinimax(_, _, _)
RECURSIVE PlainLoop(_, _, _, _, _, _, _)

PlainLoop(gs, depth, isMaximizing, moves, i, bestMove, bestScore) ==
    IF i > Len(moves)
    THEN [score |-> bestScore, bestMove |-> bestMove]
    ELSE LET score == PlainMinimax(MinimaxMakeMove(gs, moves[i]), depth + 1,
                                   ~isMaximizing).score
             better == IF isMaximizing THEN score > bestScore ELSE score < bestScore
         IN PlainLoop(gs, depth, isMaximizing, moves, i + 1,
                      IF better THEN moves[i] ELSE bestMove,
                      IF better THEN score ELSE bestScore)

PlainMinimax(gs, depth, isMaximizing) ==
    LET moves == MinimaxGetAllValidPositions(gs)
    IN IF Len(moves) = 0
       THEN [score |-> IF isMaximizing THEN LOSE_SCORE + depth ELSE WIN_SCORE - depth,
             bestMove |-> -1]
       ELSE IF depth >= MAX_DEPTH
       THEN [score |-> evaluateGameState(gs, isMaximizing), bestMove |-> -1]
       ELSE PlainLoop(gs, depth, isMaximizing, moves, 1, -1,
                      IF isMaximizing THEN MIN_VALUE ELSE MAX_VALUE)

(* The request that the last getAIMove answered: the queens without the    *)
(* last one, with the player to move that their number gives.              *)
AnsweredRequest ==
    LET before == SubSeq(queenPositions, 1, Len(queenPositions) - 1)
    IN State(n, regions, before, IF Len(before) % 2 = 0 THEN 1 ELSE 2)

(* C32: the queen that getAIMove with the minimax strategy has placed is   *)
(* the move of the plain minimax for the request it answered, and the root *)
(* score of its search, with alpha-beta pruning and the memo table, is the *)
(* score of the plain minimax.                                             *)
C32_PruningKeepsResult ==
    Len(queenPositions) >= 2 =>
        \E searched \in {minimax(AnsweredRequest, 0, TRUE, MIN_VALUE, MAX_VALUE, EmptyMemo)} :
        \E plain \in {PlainMinimax(AnsweredRequest, 0, TRUE)} :
            /\ queenPositions[Len(queenPositions)] = plain.bestMove
            /\ searched.bestMove = plain.bestMove
            /\ searched.score = plain.score

(* C33: when the service has served getDPOptimizedMove and clearCache      *)
(* requests only, so that no attack pattern is cached, the move it returns *)
(* for any game in progress it may be asked about next, on any partition   *)
(* of the board, is a valid move of that game under the game's own regions,*)
(* and it returns -1 only when the game has no valid move.                 *)
C33_CachedMoveValid ==
    attackPatternCache = EmptyCache =>
        \A gs \in CacheRequests :
            \E m \in {getDPOptimizedMove(gs, FALSE, attackPatternCache,
                                         gameStateCache).bestMove} :
                IF m = -1
                THEN \A p \in 0..(gs.n * gs.n - 1) : ~isSafe(gs, p)
                ELSE m \in 0..(gs.n * gs.n - 1) /\ isSafe(gs, m)

(* C34: on a regions list of length n*n with exactly n distinct ids the   *)
(* solver that has answered the request reported solved exactly when       *)
(* solveDnC does and exactly when solveDP does.                            *)
C34_DnCAgreesWithDP ==
    (solution # NoSolution /\ n > 0 /\ regions # NullList /\ WellFormed(n, regions)) =>
        \E dnc \in {solveDnC(n, regions).solved} :
        \E dp \in {solveDP(n, regions).solved} :
            /\ dnc = dp
            /\ solution.solved = dp

(* solveDnC has answered 'no solution' for a well-formed board of size 4   *)
(* or more.                                                                *)
C34_Witness ==
    /\ n >= 4
    /\ regions # NullList
    /\ WellFormed(n, regions)
    /\ AnsweredByDnC
    /\ ~solution.solved

(* The solver request of the state has passed the length test of solveDnC *)
(* and solveDnC has answered it.                                           *)
Searched ==
    /\ solution # NoSolution
    /\ regions # NullList
    /\ Len(regions) = n * n
    /\ AnsweredByDnC

(* The number of columns of the row whose cell shares no column, diagonal  *)
(* or region with a queen of the list.                                     *)
SafeColumns(queens, row) ==
    Cardinality({col \in 0..(n - 1) : SafeCell(queens, row * n + col)})

(* C35: at every call of dncQueens with rows left to fill, in the search   *)
(* of solveDnC for the board of the state, findRowWithMinValidPlacements   *)
(* returns -1 exactly when some remaining row has no safe column, and      *)
(* otherwise a remaining row with the fewest safe columns of all remaining *)
(* rows.                                                                   *)
C35_MinRowSelected ==
    Searched =>
        \A call \in solveDnCCalls(n, regions) :
            call.remainingRows # {} =>
                \E chosen \in {findRowWithMinValidPlacements(
                                   call.remainingRows, n, regions, call.cols,
                                   call.diag1, call.diag2, call.regionMask)} :
                    /\ (chosen = -1) <=>
                           \E row \in call.remainingRows :
                               SafeColumns(call.solution, row) = 0
                    /\ (chosen # -1) =>
                           /\ chosen \in call.remainingRows
                           /\ \A row \in call.remainingRows :
                                  SafeColumns(call.solution, chosen)
                                      <= SafeColumns(call.solution, row)

(* solveDnC has answered a board of size 4 or more whose search both       *)
(* backtracked from a row without a safe column and chose a row other than *)
(* the lowest remaining one.                                               *)
C35_Witness ==
    /\ Searched
    /\ n >= 4
    /\ \E call \in solveDnCCalls(n, regions) :
          /\ call.remainingRows # {}
          /\ findRowWithMinValidPlacements(call.remainingRows, n, regions, call.cols,
                                           call.diag1, call.diag2, call.regionMask) = -1
    /\ \E call \in solveDnCCalls(n, regions) :
          /\ call.remainingRows # {}
          /\ \E row \in call.remainingRows :
                row < findRowWithMinValidPlacements(
                          call.remainingRows, n, regions, call.cols,
                          call.diag1, call.diag2, call.regionMask)

(* The queens of the list set exactly the bits of the three masks and the  *)
(* regions of regionMask that dncQueens sets for them.                     *)
DescribesQueens(call) ==
    LET ks == 1..Len(call.solution)
        queen(k) == call.solution[k]
    IN /\ call.cols = MaskOf({Col(queen(k)) : k \in ks})
       /\ call.diag1 = MaskOf({Row(queen(k)) - Col(queen(k)) + n - 1 : k \in ks})
       /\ call.diag2 = MaskOf({Row(queen(k)) + Col(queen(k)) : k \in ks})
       /\ call.regionMask = {Get(regions, queen(k)) : k \in ks}

(* C40: in the search of solveDnC for the board of the state, every call   *)
(* of dncQueens that returns false leaves remainingRows, regionMask and    *)
(* the solution list with the contents they had when it was entered, and   *)
(* at every call the column mask, the two diagonal masks and regionMask    *)
(* are those of exactly the queens in the solution list.                   *)
C40_BacktrackingRestores ==
    Searched =>
        \A call \in solveDnCCalls(n, regions) :
            /\ ~call.returned.result =>
                   /\ call.returned.remainingRows = call.remainingRows
                   /\ call.returned.regionMask = call.regionMask
                   /\ call.returned.solution = call.solution
            /\ DescribesQueens(call)

(* solveDnC has answered a board of size 4 or more in whose search a call  *)
(* that had placed queens below it, and had a queen already in the         *)
(* solution list, returned false.                                          *)
C40_Witness ==
    /\ Searched
    /\ n >= 4
    /\ \E call \in solveDnCCalls(n, regions) :
          /\ ~call.returned.result
          /\ call.solution # <<>>
          /\ \E below \in solveDnCCalls(n, regions) :
                /\ Len(below.solution) > Len(call.solution)
                /\ SubSeq(below.solution, 1, Len(call.solution)) = call.solution

(***************************************************************************)
(* The three safety predicates.  The service keeps no state, so a request  *)
(* may carry any list of queens, attacking each other or not.  This        *)
(* specification starts from such a request on a board whose regions list  *)
(* has length n*n and applies makeMove and getAIMove to it.                *)
(***************************************************************************)
(* Largest board of such a request. *)
MaxAgreeN == 3

(* Most queens of such a request. *)
MaxAgreeQueens == 2

RECURSIVE CellLists(_, _)
CellLists(nn, len) ==
    IF len = 0
    THEN {<<>>}
    ELSE LET shorter == CellLists(nn, len - 1)
         IN shorter \cup
            {Append(q, c) : <<q, c>> \in shorter \X (0..(nn * nn - 1))}

InitAgree ==
    /\ n \in 1..MaxAgreeN
    /\ regions \in {RowBands(n), Latin(n)}
    /\ queenPositions \in CellLists(n, MaxAgreeQueens)
    /\ currentPlayer = 1
    /\ gameOver = FALSE
    /\ winner = Null
    /\ message = <<Null>>
    /\ validMoves = <<>>
    /\ player1Queens = 0
    /\ player2Queens = 0
    /\ solution = NoSolution
    /\ attackPatternCache = EmptyCache
    /\ gameStateCache = EmptyCache
    /\ BoardDefaults

NextAgree ==
    \/ \E position \in Positions(n) : MakeMove(position)
    \/ \E type \in SolverTypes : GetAIMove(type)

SpecAgree == InitAgree /\ [][NextAgree]_vars

(* The three predicates give the same answer on the position. *)
PredicatesAgree(queens, position) ==
    \E game \in {isSafe(State(n, regions, queens, currentPlayer), position)} :
        /\ MinimaxIsSafe(queens, position, n, regions) = game
        /\ isPositionSafeForMove(position, queens, n, regions) = game

(* C36: on a board whose regions list has length n*n, isSafe of the game   *)
(* service, isSafe of the minimax service and isPositionSafeForMove give   *)
(* the same answer on every cell of the board for the queens of the       *)
(* state; and while the game is in progress the move each strategy         *)
(* recommends passes the isSafe test of makeMove.                          *)
C36_SafetyPredicatesAgree ==
    (n > 0 /\ Len(regions) = n * n) =>
        /\ \A position \in Board : PredicatesAgree(queenPositions, position)
        /\ ~gameOver =>
               \A type \in SolverTypes :
                   \E move \in {Strategy(type)} :
                       move # -1 => makeMoveCommits(move)

(* A request has been answered for a game in progress on a board of size   *)
(* 3 or more with a queen placed, a cell the predicates refuse only for    *)
(* its r + c diagonal, a cell they refuse only for its r - c diagonal, and *)
(* a cell they accept.                                                     *)
C36_Witness ==
    /\ n >= 3
    /\ message # <<Null>>
    /\ Len(regions) = n * n
    /\ ~gameOver
    /\ queenPositions # <<>>
    /\ \E position \in Board :
          /\ ~isSafe(Current, position)
          /\ ~isRegionOccupied(position, Current)
          /\ \A k \in 1..Len(queenPositions) :
                 /\ Row(position) # Row(queenPositions[k])
                 /\ Col(position) # Col(queenPositions[k])
                 /\ Row(position) - Col(position)
                        # Row(queenPositions[k]) - Col(queenPositions[k])
    /\ \E position \in Board :
          /\ ~isSafe(Current, position)
          /\ ~isRegionOccupied(position, Current)
          /\ \A k \in 1..Len(queenPositions) :
                 /\ Row(position) # Row(queenPositions[k])
                 /\ Col(position) # Col(queenPositions[k])
                 /\ Row(position) + Col(position)
                        # Row(queenPositions[k]) + Col(queenPositions[k])
    /\ \E position \in Board : isSafe(Current, position)

(* The state holds the answer of solveDivideAndConquer to its n and        *)
(* regions.                                                                *)
AnsweredByDivide ==
    /\ ~solveDivideAndConquerThrows(n, regions)
    /\ solution = solveDivideAndConquer(n, regions)

(* C37: for a regions list of length n*n with n ids,                       *)
(* solveDivideAndConquer answers solved = true when a full legal placement *)
(* exists, and answers "No valid solution found" only when none exists.    *)
C37_DivideAndConquerComplete ==
    (n > 0 /\ regions # NullList /\ WellFormed(n, regions) /\ AnsweredByDivide) =>
        (solution.solved <=> Extendable(<<>>))

(***************************************************************************)
(* Board.tsx: the board component of the frontend.  It plays the game in   *)
(* the browser.  Its GameState has the fields of the backend's and is kept *)
(* in the React state gameState, here the variables of the same names.     *)
(* Every handler is created anew at each render and reads the gameState,   *)
(* gameMode and difficulty of the render that created it; the effect that  *)
(* copies gameState to gameStateRef runs after each render, long before a  *)
(* 1200 ms timeout, so gameStateRef.current is the gameState of the latest *)
(* render whenever a handler or callback reads it.                         *)
(***************************************************************************)
GameModes == {"human-vs-human", "human-vs-ai"}

Difficulties == {"easy", "hard"}

(* The gameState of the latest render. *)
BoardGameState ==
    [n |-> n, regions |-> regions, queenPositions |-> queenPositions,
     currentPlayer |-> currentPlayer, gameOver |-> gameOver, winner |-> winner,
     message |-> message, validMoves |-> validMoves,
     player1Queens |-> player1Queens, player2Queens |-> player2Queens]

setGameState(gs) ==
    /\ n' = gs.n
    /\ regions' = gs.regions
    /\ queenPositions' = gs.queenPositions
    /\ currentPlayer' = gs.currentPlayer
    /\ gameOver' = gs.gameOver
    /\ winner' = gs.winner
    /\ message' = gs.message
    /\ validMoves' = gs.validMoves
    /\ player1Queens' = gs.player1Queens
    /\ player2Queens' = gs.player2Queens

(* isSafe of the component: rows and columns always, the whole diagonals   *)
(* in hard mode and only the four diagonal neighbours in easy mode.        *)
BoardIsSafe(position, queens, nn, diff) ==
    LET row == position \div nn
        col == position % nn
    IN \A k \in 1..Len(queens) :
          LET qRow == queens[k] \div nn
              qCol == queens[k] % nn
              rowDiff == Abs(row - qRow)
              colDiff == Abs(col - qCol)
          IN /\ ~(row = qRow \/ col = qCol)
             /\ IF diff = "hard"
                THEN rowDiff # colDiff
                ELSE ~(rowDiff = 1 /\ colDiff = 1)

BoardGetAllValidMoves(queens, nn, rr, diff) ==
    LET usedRegions == {Get(rr, queens[k]) : k \in 1..Len(queens)}
    IN SelectSeq(Cells(nn),
                 LAMBDA i : BoardIsSafe(i, queens, nn, diff)
                            /\ Get(rr, i) \notin usedRegions)

(* The GameState initializeGame sets. *)
BoardInitializeGame(nn, rr, diff) ==
    [n |-> nn, regions |-> rr, queenPositions |-> <<>>, currentPlayer |-> 1,
     gameOver |-> FALSE, winner |-> Null,
     message |-> <<"Game started! Player 1's turn.">>,
     validMoves |-> BoardGetAllValidMoves(<<>>, nn, rr, diff),
     player1Queens |-> 0, player2Queens |-> 0]

(* queenPositions.indexOf(position). *)
IndexOf(list, x) ==
    IF Contains(list, x)
    THEN (CHOOSE k \in 1..Len(list) :
             list[k] = x /\ \A j \in 1..(k - 1) : list[j] # x) - 1
    ELSE -1

(* The GameState removeQueen sets, from the gameState of its render. *)
removeQueen(gs, position, diff) ==
    LET newQueenPositions == SelectSeq(gs.queenPositions, LAMBDA pos : pos # position)
        queenIndex == IndexOf(gs.queenPositions, position)
        wasPlayer1 == JavaMod(queenIndex, 2) = 0
        newValidMoves == BoardGetAllValidMoves(newQueenPositions, gs.n, gs.regions, diff)
    IN [gs EXCEPT
           !.queenPositions = newQueenPositions,
           !.validMoves = newValidMoves,
           !.message = <<"Player ", ToString(gs.currentPlayer), "'s turn. ",
                         ToString(Len(newValidMoves)), " valid moves available.">>,
           !.player1Queens = IF wasPlayer1 THEN @ - 1 ELSE @,
           !.player2Queens = IF ~wasPlayer1 THEN @ - 1 ELSE @]

(* The GameState makeMove sets, from the gameState of its render. *)
BoardMakeMove(gs, position, diff) ==
    LET newQueenPositions == Append(gs.queenPositions, position)
        newPlayer1Queens == IF gs.currentPlayer = 1
                            THEN gs.player1Queens + 1 ELSE gs.player1Queens
        newPlayer2Queens == IF gs.currentPlayer = 2
                            THEN gs.player2Queens + 1 ELSE gs.player2Queens
        nextPlayer == IF gs.currentPlayer = 1 THEN 2 ELSE 1
        newValidMoves == BoardGetAllValidMoves(newQueenPositions, gs.n, gs.regions, diff)
    IN IF Len(newQueenPositions) = gs.n
       THEN [gs EXCEPT
                !.queenPositions = newQueenPositions,
                !.gameOver = TRUE,
                !.winner = PlayerName(gs.currentPlayer),
                !.message = <<PlayerName(gs.currentPlayer), " wins! All ",
                              ToString(gs.n), " regions filled!">>,
                !.validMoves = <<>>,
                !.player1Queens = newPlayer1Queens,
                !.player2Queens = newPlayer2Queens]
       ELSE IF Len(newValidMoves) = 0
       THEN [gs EXCEPT
                !.queenPositions = newQueenPositions,
                !.gameOver = TRUE,
                !.winner = PlayerName(gs.currentPlayer),
                !.message = <<PlayerName(gs.currentPlayer), " wins! ",
                              PlayerName(nextPlayer), " has no valid moves. (",
                              ToString(Len(newQueenPositions)), "/",
                              ToString(gs.n), " queens placed)">>,
                !.validMoves = <<>>,
                !.player1Queens = newPlayer1Queens,
                !.player2Queens = newPlayer2Queens]
       ELSE [gs EXCEPT
                !.queenPositions = newQueenPositions,
                !.currentPlayer = nextPlayer,
                !.validMoves = newValidMoves,
                !.message = <<PlayerName(nextPlayer), "'s turn. ",
                              ToString(Len(newValidMoves)),
                              " valid moves available. (",
                              ToString(Len(newQueenPositions)), "/",
                              ToString(gs.n), " queens)">>,
                !.player1Queens = newPlayer1Queens,
                !.player2Queens = newPlayer2Queens]

(* One entry of moveEvaluations in makeAIMove. *)
MoveEvaluation(currentGameState, move, diff) ==
    LET nn == currentGameState.n
        rr == currentGameState.regions
        afterAIMove == Append(currentGameState.queenPositions, move)
        aiValidMoves == BoardGetAllValidMoves(afterAIMove, nn, rr, diff)
        sampled == SubSeq(aiValidMoves, 1,
                          IF Len(aiValidMoves) < 5 THEN Len(aiValidMoves) ELSE 5)
        humanMoves == {Len(BoardGetAllValidMoves(Append(afterAIMove, sampled[k]),
                                                 nn, rr, diff)) :
                          k \in 1..Len(sampled)}
    IN [move |-> move, aiMoves |-> Len(aiValidMoves),
        humanMoves |-> IF Len(aiValidMoves) > 0
                       THEN CHOOSE m \in humanMoves : \A h \in humanMoves : m <= h
                       ELSE 0]

(* sort((a, b) => b.aiMoves - a.aiMoves)[0]: the sort is stable, so the    *)
(* first entry with the most aiMoves.                                      *)
MostAIMoves(evaluations) ==
    evaluations[CHOOSE k \in 1..Len(evaluations) :
                   /\ \A j \in 1..Len(evaluations) :
                          evaluations[j].aiMoves <= evaluations[k].aiMoves
                   /\ \A j \in 1..(k - 1) :
                          evaluations[j].aiMoves < evaluations[k].aiMoves]

(* bestMove of makeAIMove for a state with valid moves. *)
makeAIMoveBest(currentGameState, diff) ==
    LET moveEvaluations ==
            [k \in 1..Len(currentGameState.validMoves) |->
                MoveEvaluation(currentGameState, currentGameState.validMoves[k], diff)]
        winningMoves == SelectSeq(moveEvaluations, LAMBDA e : e.humanMoves = 0)
        fairMoves == SelectSeq(moveEvaluations, LAMBDA e : e.humanMoves > 0)
    IN IF Len(winningMoves) > 0 THEN MostAIMoves(winningMoves).move
       ELSE IF Len(fairMoves) > 0 THEN MostAIMoves(fairMoves).move
       ELSE MostAIMoves(moveEvaluations).move

(* Most setTimeout callbacks pending at once. *)
MaxTimers == 1

(* How far below zero a queen count is followed. *)
MaxMiscount == 2

(* The render whose makeMove, makeAIMove and getAllValidMoves a callback   *)
(* created by setTimeout refers to.                                        *)
Render == [gameState |-> BoardGameState, difficulty |-> difficulty]

(* handleCellClick with all it calls: removeQueen, or makeMove and the     *)
(* setTimeout of the AI turn.  A click that returns early changes nothing. *)
(* A removal that would take a count below -MaxMiscount, and a move that   *)
(* would set up a callback beyond MaxTimers, are not followed.             *)
HandleCellClick(index) ==
    /\ n > 0
    /\ ~gameOver
    /\ ~(gameMode = "human-vs-ai" /\ currentPlayer = 2)
    /\ IF Contains(queenPositions, index)
       THEN /\ \E newGameState \in {removeQueen(BoardGameState, index, difficulty)} :
                  /\ newGameState.player1Queens >= -MaxMiscount
                  /\ newGameState.player2Queens >= -MaxMiscount
                  /\ setGameState(newGameState)
            /\ UNCHANGED timers
       ELSE /\ Contains(validMoves, index)
            /\ \E newGameState \in {BoardMakeMove(BoardGameState, index, difficulty)} :
                  /\ setGameState(newGameState)
                  /\ IF /\ ~newGameState.gameOver
                        /\ gameMode = "human-vs-ai"
                        /\ newGameState.currentPlayer = 2
                     THEN /\ Len(timers) < MaxTimers
                          /\ timers' = Append(timers, Render)
                     ELSE UNCHANGED timers
    /\ UNCHANGED <<gameMode, difficulty, solution, attackPatternCache, gameStateCache>>

(* The callback of setTimeout: it reads gameStateRef.current and calls the *)
(* makeAIMove of its render, which calls the makeMove of its render.       *)
TimerFires ==
    /\ timers # <<>>
    /\ timers' = Tail(timers)
    /\ \E render \in {Head(timers)} : \E latestState \in {BoardGameState} :
          IF /\ ~latestState.gameOver
             /\ latestState.currentPlayer = 2
             /\ Len(latestState.validMoves) # 0
          THEN setGameState(BoardMakeMove(render.gameState,
                                          makeAIMoveBest(latestState, render.difficulty),
                                          render.difficulty))
          ELSE UNCHANGED GameFields
    /\ UNCHANGED <<gameMode, difficulty, solution, attackPatternCache, gameStateCache>>

(* handleModeChange; the select is disabled while a game with queens on    *)
(* the board is in progress.                                               *)
HandleModeChange(mode) ==
    /\ n > 0
    /\ mode # gameMode
    /\ gameOver \/ Len(queenPositions) = 0
    /\ gameMode' = mode
    /\ setGameState(BoardInitializeGame(n, regions, difficulty))
    /\ UNCHANGED <<difficulty, timers, solution, attackPatternCache, gameStateCache>>

(* onChange of the difficulty select: setDifficulty, then the              *)
(* initializeGame of the render, which still reads the old difficulty.     *)
DifficultyChange(d) ==
    /\ n > 0
    /\ d # difficulty
    /\ difficulty' = d
    /\ setGameState(BoardInitializeGame(n, regions, difficulty))
    /\ UNCHANGED <<gameMode, timers, solution, attackPatternCache, gameStateCache>>

(* Largest board the component is mounted with. *)
MaxBoardN == 3

(* The component after its first effect: a new game on the board of its    *)
(* prop n and its regions.                                                 *)
InitBoard ==
    /\ \E nn \in 1..MaxBoardN : \E rr \in {RowBands(nn), Latin(nn)} :
          \E gs \in {BoardInitializeGame(nn, rr, "easy")} :
              /\ n = gs.n
              /\ regions = gs.regions
              /\ queenPositions = gs.queenPositions
              /\ currentPlayer = gs.currentPlayer
              /\ gameOver = gs.gameOver
              /\ winner = gs.winner
              /\ message = gs.message
              /\ validMoves = gs.validMoves
              /\ player1Queens = gs.player1Queens
              /\ player2Queens = gs.player2Queens
    /\ solution = NoSolution
    /\ attackPatternCache = EmptyCache
    /\ gameStateCache = EmptyCache
    /\ BoardDefaults

NextBoard ==
    \/ \E index \in 0..(n * n - 1) : HandleCellClick(index)
    \/ TimerFires
    \/ \E mode \in GameModes : HandleModeChange(mode)
    \/ \E d \in Difficulties : DifficultyChange(d)

SpecBoard == InitBoard /\ [][NextBoard]_vars

(* The callback of an AI turn runs while the game it was set up for is     *)
(* still waiting for player 2, and commits a move.                         *)
AITurnCommits ==
    /\ gameMode = "human-vs-ai"
    /\ timers # <<>>
    /\ timers' = Tail(timers)
    /\ ~gameOver
    /\ currentPlayer = 2
    /\ Len(validMoves) # 0

(* C38: in human-vs-ai mode, when the delayed AI turn commits after a      *)
(* human move, the new queenPositions are the queenPositions after the     *)
(* human move plus one cell that was a valid move, the queen is credited   *)
(* to player 2, and the turn returns to player 1 unless the move ended the *)
(* game.                                                                   *)
C38_AITurnCommitsOnLatest ==
    [][AITurnCommits =>
          /\ Len(queenPositions') = Len(queenPositions) + 1
          /\ SubSeq(queenPositions', 1, Len(queenPositions)) = queenPositions
          /\ Contains(validMoves, queenPositions'[Len(queenPositions')])
          /\ player2Queens' = player2Queens + 1
          /\ player1Queens' = player1Queens
          /\ gameOver' \/ currentPlayer' = 1]_vars

(* Two players at one screen: only clicks on cells, which place and remove *)
(* queens.                                                                 *)
NextRetract == \E index \in 0..(n * n - 1) : HandleCellClick(index)

SpecRetract == InitBoard /\ [][NextRetract]_vars

(* C39: after any sequence of makeMove and removeQueen in the board        *)
(* component, player1Queens and player2Queens are not negative, together   *)
(* they count the queens on the board (each queen was placed by one of the *)
(* two players), and while the game is in progress validMoves is exactly   *)
(* the list of safe cells for the queens on the board.                     *)
C39_RetractionRestoresCounts ==
    /\ player1Queens >= 0
    /\ player2Queens >= 0
    /\ player1Queens + player2Queens = Len(queenPositions)
    /\ ~gameOver =>
          validMoves = BoardGetAllValidMoves(queenPositions, n, regions, difficulty)

====
